---------------------------- MODULE Spec2Model ----------------------------
(***************************************************************************)
(* Model of the test-automation framework of autumn-qa-task-2025:          *)
(*   - WaitHelper (wait, waitWithBackoff, pollUntil, waitForAll,           *)
(*     waitForAny), src/unnamed/part_000;                                  *)
(*   - TaskService (validateTask, generateAllCombinations,                 *)
(*     createInvalidTask), test-auto-framework/services;                   *)
(*   - the fixtures, Logger and ScreenshotHelper under the test runner;    *)
(*   - TestDataService and the page's persisted store;                     *)
(*   - TaskManagerPage operations on the task list.                        *)
(* Time is the value of Date.now() in milliseconds.  A condition or an     *)
(* action is an asynchronous predicate: each invocation settles after some *)
(* duration, with true, with false, or by raising (a rejected promise).    *)
(***************************************************************************)
EXTENDS Integers, Sequences, FiniteSets, TLC

VARIABLES
    \* ---- WaitHelper ----
    op,           \* the WaitHelper method being executed, "none" before the call
    pc,           \* position of the async method: idle / loop / cond / wait / done
    now,          \* Date.now()
    startTime,    \* pollUntil: const startTime = Date.now()
    timeoutMs,    \* parameter timeoutMs
    intervalMs,   \* parameter intervalMs
    nConds,       \* conditions.length (1 for pollUntil and waitWithBackoff)
    tick,         \* outcomes of the conditions on the latest check
    calls,        \* number of invocations of condition / action so far
    raises,       \* number of checks on which the polled condition raised
    firstTrue,    \* index of the first check that returned true (0: none yet)
    everTrue,     \* the conditions that returned true on some tick
    allTick,      \* some tick had every condition return true
    anyTick,      \* some tick had at least one condition return true
    waitLog,      \* the delays passed to this.wait(), in order
    result,       \* "none", "true", "false", or "raised" (failure propagated)
    retAt,        \* Date.now() when the method returned
    maxAttempts,  \* waitWithBackoff parameter
    initialDelay, \* waitWithBackoff parameter
    delay,        \* waitWithBackoff: let delay
    attempt,      \* waitWithBackoff: let attempt
    \* ---- TaskService ----
    task,         \* the Task handed to validateTask
    validation,   \* the value validateTask returned, NoValidation before
    origin,       \* where task comes from: "none", "input" (the test's own literal),
                  \* or the kind passed to createInvalidTask
    combinations, \* the value of the latest generateAllCombinations() call
    prevCombinations, \* the value of the call before it
    genCalls,     \* number of generateAllCombinations() calls so far
    overrides,    \* the overrides handed to createValidTask / createMinimalTask
    \* --- test runs (fixtures/index.ts, Logger, ScreenshotHelper)
    phase,        \* per test: "pending", "setup", "body", "teardown", "ended"
    worker,       \* per test: the worker process running it, 0 before it is scheduled
    requested,    \* per test: the fixtures its body destructures
    outcome,      \* per test: "none", "pass", "fail", "timeout", "setupFailed"
    events,       \* per test: what its testDataService fixture and its body did, in order
    loggerLogs,   \* per worker process: Logger.instance.logs, <<>> before getInstance
    logged,       \* per test: the lines its body wrote through its logger fixture
    clock,        \* Date.now() of the machine, in milliseconds
    sink,         \* the screenshots directory: the files in it and who wrote each last
    shots,        \* per test: the paths its screenshotHelper fixture returned
    \* --- persisted store of one page (TestDataService)
    localStorage,   \* window.localStorage: key -> text
    sessionStorage, \* window.sessionStorage: key -> text
    appTasks,       \* the task list the loaded application holds in memory
    appWrote,       \* the application wrote the store since the last setStoredTasks
    lastSet,        \* the argument of the last setStoredTasks
    got,            \* outcome of the last getStoredTasks
    prevOp, lastOp, \* the last two operations on the page
    lastSteps,      \* the driver steps of the last TestDataService operation, in order
    \* --- the task list page (TaskManagerPage)
    cards,          \* the tasks the application holds, in list order
    filter,         \* the label filter of the page: "All" or a label
    pageOp,         \* the last page-object operation
    pageArg,        \* its title argument
    editArg,        \* the newTask argument of the last editTask
    pageResult,     \* "none", "ok", "raised", or "hangs" (the operation never returns)
    interactions,   \* the driver interactions the last operation issued, in order
    prevCards,      \* the tasks before the last operation
    setupArg,       \* the tasks argument of the last setupTestData
    \* ---- the regression test 'Create and delete multiple tasks with counts' ----
    regressionTasks, \* the tasks the test adds
    listed,          \* the titles of the cards the application shows, in order
    testStep,        \* how many statements of the test body were executed
    verdict,         \* "idle", "running", "passed" or "failed"
    lastDelete,      \* what the application did on the last click on Delete
    \* ---- one asynchronous flow of a test body or page-object operation ----
    flow,            \* the name of the flow, "none" before one runs
    begun,           \* how many statements of the flow have been started
    inFlight,        \* the started statements whose promise has not settled
    flowResult,      \* "running" or "failed"
    flowTrace        \* begin / end events in the order they happened

waitVars == <<op, pc, now, startTime, timeoutMs, intervalMs, nConds, tick, calls,
              raises, firstTrue, everTrue, allTick, anyTick, waitLog, result,
              retAt, maxAttempts, initialDelay, delay, attempt>>
taskVars == <<task, validation, origin, combinations, prevCombinations, genCalls, overrides>>
runVars == <<phase, worker, requested, outcome, events, loggerLogs, logged, clock, sink, shots>>
storeVars == <<localStorage, sessionStorage, appTasks, appWrote, lastSet, got,
               prevOp, lastOp, lastSteps>>
pageVars == <<cards, filter, pageOp, pageArg, editArg, pageResult, interactions, prevCards,
              setupArg>>
regressionVars == <<regressionTasks, listed, testStep, verdict, lastDelete>>
flowVars == <<flow, begun, inFlight, flowResult, flowTrace>>
vars == <<waitVars, taskVars, runVars, storeVars, pageVars, regressionVars, flowVars>>
exceptWait == <<taskVars, runVars, storeVars, pageVars, regressionVars, flowVars>>
exceptTask == <<waitVars, runVars, storeVars, pageVars, regressionVars, flowVars>>
exceptRun == <<waitVars, taskVars, storeVars, pageVars, regressionVars, flowVars>>
exceptStore == <<waitVars, taskVars, runVars, pageVars, regressionVars, flowVars>>
exceptPage == <<waitVars, taskVars, runVars, storeVars, regressionVars, flowVars>>
exceptRegression == <<waitVars, taskVars, runVars, storeVars, pageVars, flowVars>>
exceptFlow == <<waitVars, taskVars, runVars, storeVars, pageVars, regressionVars>>

---------------------------------------------------------------------------
(* Bounds of the model *)
MaxLogLines == 1       \* lines a test body logs
RandomSteps == 8       \* values Math.random() takes: k / RandomSteps
MaxRegression == 4     \* tasks the regression test adds
MaxSetup == 2          \* tasks handed to setupTestData
MaxCards == 2          \* tasks on the page before an operation
MaxStored == 2         \* records in a stored task list
MaxClock == 1          \* milliseconds the machine clock advances during the run

\* timeoutMs ranges over 0 .. MaxTimeoutUnits * TimeUnit
MaxTimeoutUnits == 4
\* intervalMs ranges over TimeUnit .. MaxIntervalUnits * TimeUnit
MaxIntervalUnits == 2
\* one invocation of a condition / action takes 0 .. MaxCondUnits * TimeUnit
MaxCondUnits == 2
\* waitForAll / waitForAny receive 0 .. MaxConds conditions
MaxConds == 2
\* waitWithBackoff: maxAttempts ranges over 0 .. MaxAttemptsBound
MaxAttemptsBound == 5
\* waitWithBackoff: initialDelay ranges over 0 .. MaxDelayUnits * DefaultInitialDelay
MaxDelayUnits == 2

(* Program constants *)
DefaultMaxAttempts == 5
DefaultInitialDelay == 1000
DefaultIntervalMs == 500
ExampleTimeoutMs == 5000

\* the model's clock advances in steps of the default polling interval
TimeUnit == DefaultIntervalMs

Outcomes == {"true", "false", "raise"}
PollOps == {"pollUntil", "waitForAll", "waitForAny"}
Timeouts == {k * TimeUnit : k \in 0..MaxTimeoutUnits}
Intervals == {k * TimeUnit : k \in 1..MaxIntervalUnits} \cup {DefaultIntervalMs}
CondDurations == {k * TimeUnit : k \in 0..MaxCondUnits}
InitialDelays == {k * DefaultInitialDelay : k \in 0..MaxDelayUnits}
AttemptCounts == 0..MaxAttemptsBound \cup {DefaultMaxAttempts}

RECURSIVE SumSeq(_)
SumSeq(s) == IF s = <<>> THEN 0 ELSE Head(s) + SumSeq(Tail(s))

RECURSIVE Pow2(_)
Pow2(n) == IF n <= 0 THEN 1 ELSE 2 * Pow2(n - 1)

---------------------------------------------------------------------------
(* WaitHelper *)

\* variant: "all" satisfied as soon as some condition is true (some for every)
WaitForAllCondition_some(t) ==
    IF \E i \in DOMAIN t : t[i] = "raise" THEN "raise"
    ELSE IF \E i \in DOMAIN t : t[i] = "true" THEN "true"
    ELSE "false"

\* results.every(r => r === true) over Promise.all(conditions.map(c => c())):
\* Promise.all rejects as soon as one condition rejects.
WaitForAllCondition(t) ==
    IF \E i \in DOMAIN t : t[i] = "raise" THEN "raise"
    ELSE IF \A i \in DOMAIN t : t[i] = "true" THEN "true"
    ELSE "false"

\* variant: the per-condition .catch(() => false) is missing
WaitForAnyCondition_nocatch(t) ==
    IF \E i \in DOMAIN t : t[i] = "raise" THEN "raise"
    ELSE IF \E i \in DOMAIN t : t[i] = "true" THEN "true"
    ELSE "false"

\* results.some(r => r === true) over conditions.map(c => c().catch(() => false))
WaitForAnyCondition(t) ==
    IF \E i \in DOMAIN t : t[i] = "true" THEN "true" ELSE "false"

\* the predicate pollUntil polls, by calling method
Condition(o, t) ==
    CASE o = "waitForAll" -> WaitForAllCondition(t)
      [] o = "waitForAny" -> WaitForAnyCondition(t)
      [] OTHER -> t[1]

\* variant: no try/catch around the check
PollCaught_nocatch(o) == o

\* pollUntil: try { result = await condition() } catch (error) { /* continue */ }
PollCaught(o) == IF o = "raise" THEN "false" ELSE o

\* variant: a true result does not end the polling
PollReturns_never(r) == FALSE

\* pollUntil: if (result) { return true; }
PollReturns(r) == r = "true"

\* pollUntil: while (Date.now() - startTime < timeoutMs)
PollTimeLeft(n, s, t) == n - s < t

\* variant: a failure of the action is swallowed and retried
BackoffCaught_absorbed(o) == IF o = "raise" THEN "false" ELSE o

\* waitWithBackoff: const result = await action()  (no try/catch)
BackoffCaught(o) == o

\* waitWithBackoff: if (result) { return true; }
BackoffReturns(r) == r = "true"

\* variant: off-by-one loop bound
BackoffAttemptsLeft_offbyone(a, m) == a <= m

\* waitWithBackoff: for (...; attempt < maxAttempts; ...)
BackoffAttemptsLeft(a, m) == a < m

\* variant: waits after the final attempt too
BackoffWaitsAfter_always(a, m) == a < m

\* waitWithBackoff: if (attempt < maxAttempts - 1)
BackoffWaitsAfter(a, m) == a < m - 1

\* waitWithBackoff: delay *= 2
BackoffNextDelay(d) == d * 2

WaitIdle ==
    /\ op = "none" /\ pc = "idle"
    /\ now = TimeUnit
    /\ startTime = 0 /\ timeoutMs = 0 /\ intervalMs = 0
    /\ nConds = 0 /\ tick = <<>> /\ calls = 0 /\ raises = 0 /\ firstTrue = 0
    /\ everTrue = {} /\ allTick = FALSE /\ anyTick = FALSE
    /\ waitLog = <<>> /\ result = "none" /\ retAt = 0
    /\ maxAttempts = 0 /\ initialDelay = 0 /\ delay = 0 /\ attempt = 0

\* entry of pollUntil(condition, timeoutMs, intervalMs)
EnterPoll(o, n, t, i) ==
    /\ pc = "idle"
    /\ op' = o /\ nConds' = n /\ timeoutMs' = t /\ intervalMs' = i
    /\ startTime' = now
    /\ pc' = "loop"
    /\ UNCHANGED <<now, tick, calls, raises, firstTrue, everTrue, allTick, anyTick,
                   waitLog, result, retAt, maxAttempts, initialDelay, delay, attempt>>

CallPollUntil ==
    \E t \in Timeouts \cup {ExampleTimeoutMs}, i \in Intervals : EnterPoll("pollUntil", 1, t, i)

\* waitForAll(conditions, timeoutMs): this.pollUntil(async () => ..., timeoutMs)
CallWaitForAll ==
    \E n \in 0..MaxConds, t \in Timeouts : EnterPoll("waitForAll", n, t, DefaultIntervalMs)

\* waitForAny(conditions, timeoutMs): this.pollUntil(async () => ..., timeoutMs)
CallWaitForAny ==
    \E n \in 0..MaxConds, t \in Timeouts : EnterPoll("waitForAny", n, t, DefaultIntervalMs)

\* the loop test of pollUntil, and return false after the loop
PollLoop ==
    /\ op \in PollOps /\ pc = "loop"
    /\ IF PollTimeLeft(now, startTime, timeoutMs)
         THEN /\ pc' = "cond"
              /\ UNCHANGED <<result, retAt>>
         ELSE /\ pc' = "done"
              /\ result' = "false"
              /\ retAt' = now
    /\ UNCHANGED <<op, now, startTime, timeoutMs, intervalMs, nConds, tick, calls,
                   raises, firstTrue, everTrue, allTick, anyTick, waitLog,
                   maxAttempts, initialDelay, delay, attempt>>

\* one check: await condition(); if (result) return true; failures are caught
PollCheck ==
    /\ op \in PollOps /\ pc = "cond"
    /\ \E t \in [1..nConds -> Outcomes], d \in CondDurations :
         LET settled == PollCaught(Condition(op, t)) IN
         /\ tick' = t
         /\ now' = now + d
         /\ calls' = calls + 1
         /\ raises' = raises + (IF Condition(op, t) = "raise" THEN 1 ELSE 0)
         /\ everTrue' = everTrue \cup {i \in 1..nConds : t[i] = "true"}
         /\ allTick' = (allTick \/ \A i \in 1..nConds : t[i] = "true")
         /\ anyTick' = (anyTick \/ \E i \in 1..nConds : t[i] = "true")
         /\ firstTrue' = IF firstTrue = 0 /\ settled = "true" THEN calls' ELSE firstTrue
         /\ CASE settled = "raise" ->
                   /\ result' = "raised" /\ pc' = "done" /\ retAt' = now'
              [] PollReturns(settled) ->
                   /\ result' = "true" /\ pc' = "done" /\ retAt' = now'
              [] OTHER ->
                   /\ pc' = "wait"
                   /\ UNCHANGED <<result, retAt>>
    /\ UNCHANGED <<op, startTime, timeoutMs, intervalMs, nConds, waitLog,
                   maxAttempts, initialDelay, delay, attempt>>

\* await this.wait(intervalMs)
PollWait ==
    /\ op \in PollOps /\ pc = "wait"
    /\ now' = now + intervalMs
    /\ waitLog' = Append(waitLog, intervalMs)
    /\ pc' = "loop"
    /\ UNCHANGED <<op, startTime, timeoutMs, intervalMs, nConds, tick, calls, raises,
                   firstTrue, everTrue, allTick, anyTick, result, retAt,
                   maxAttempts, initialDelay, delay, attempt>>

\* entry of waitWithBackoff(action, maxAttempts, initialDelay): let delay = initialDelay
CallWaitWithBackoff ==
    /\ pc = "idle"
    /\ \E m \in AttemptCounts, d \in InitialDelays :
         /\ maxAttempts' = m /\ initialDelay' = d /\ delay' = d
    /\ op' = "waitWithBackoff" /\ nConds' = 1 /\ attempt' = 0
    /\ pc' = "loop"
    /\ UNCHANGED <<now, startTime, timeoutMs, intervalMs, tick, calls, raises,
                   firstTrue, everTrue, allTick, anyTick, waitLog, result, retAt>>

\* the loop test of waitWithBackoff, and return false after the loop
BackoffLoop ==
    /\ op = "waitWithBackoff" /\ pc = "loop"
    /\ IF BackoffAttemptsLeft(attempt, maxAttempts)
         THEN /\ pc' = "cond"
              /\ UNCHANGED <<result, retAt>>
         ELSE /\ pc' = "done"
              /\ result' = "false"
              /\ retAt' = now
    /\ UNCHANGED <<op, now, startTime, timeoutMs, intervalMs, nConds, tick, calls,
                   raises, firstTrue, everTrue, allTick, anyTick, waitLog,
                   maxAttempts, initialDelay, delay, attempt>>

\* one attempt: const result = await action(); if (result) return true;
\* then either the wait or, on the last attempt, attempt++ directly
BackoffAttempt ==
    /\ op = "waitWithBackoff" /\ pc = "cond"
    /\ \E o \in Outcomes, d \in CondDurations :
         LET settled == BackoffCaught(o) IN
         /\ tick' = <<o>>
         /\ now' = now + d
         /\ calls' = calls + 1
         /\ raises' = raises + (IF o = "raise" THEN 1 ELSE 0)
         /\ firstTrue' = IF firstTrue = 0 /\ settled = "true" THEN calls' ELSE firstTrue
         /\ CASE settled = "raise" ->
                   /\ result' = "raised" /\ pc' = "done" /\ retAt' = now'
                   /\ UNCHANGED attempt
              [] BackoffReturns(settled) ->
                   /\ result' = "true" /\ pc' = "done" /\ retAt' = now'
                   /\ UNCHANGED attempt
              [] OTHER ->
                   /\ IF BackoffWaitsAfter(attempt, maxAttempts)
                        THEN pc' = "wait" /\ UNCHANGED attempt
                        ELSE pc' = "loop" /\ attempt' = attempt + 1
                   /\ UNCHANGED <<result, retAt>>
    /\ UNCHANGED <<op, startTime, timeoutMs, intervalMs, nConds, everTrue, allTick,
                   anyTick, waitLog, maxAttempts, initialDelay, delay>>

\* await this.wait(delay); delay *= 2; then attempt++
BackoffWait ==
    /\ op = "waitWithBackoff" /\ pc = "wait"
    /\ now' = now + delay
    /\ waitLog' = Append(waitLog, delay)
    /\ delay' = BackoffNextDelay(delay)
    /\ attempt' = attempt + 1
    /\ pc' = "loop"
    /\ UNCHANGED <<op, startTime, timeoutMs, intervalMs, nConds, tick, calls, raises,
                   firstTrue, everTrue, allTick, anyTick, result, retAt,
                   maxAttempts, initialDelay>>

---------------------------------------------------------------------------
(* TaskService *)

(* A string whose characters matter (title, description) is a sequence of
   one-character strings; "E-acute" stands for the single character U+00C9, an
   uppercase letter outside A-Z.  A Task is a function from the names of the
   fields that are present to their values. *)

AsciiUppercase == {"A", "B", "C", "D", "E", "F", "G", "H", "I", "J", "K", "L", "M",
                   "N", "O", "P", "Q", "R", "S", "T", "U", "V", "W", "X", "Y", "Z"}
AsciiLowercase == {"a", "b", "c", "d", "e", "f", "g", "h", "i", "j", "k", "l", "m",
                   "n", "o", "p", "q", "r", "s", "t", "u", "v", "w", "x", "y", "z"}
UppercaseLetters == AsciiUppercase \cup {"E-acute"}
Whitespace == {" "}
Alphabet == {"T", "t", " ", "1", "E-acute"}

\* the Task interface: title, description?, importance?, label?, completed?
Importances == {"High", "Medium", "Low"}
Labels == {"Work", "Social", "Home", "Hobby"}

NoTask == [f \in {} |-> <<>>]
NoValidation == [valid |-> FALSE, errors |-> <<"not called">>]

Has(t, f) == f \in DOMAIN t

\* String.prototype.trim
RECURSIVE TrimStart(_)
TrimStart(s) == IF s # <<>> /\ Head(s) \in Whitespace THEN TrimStart(Tail(s)) ELSE s
RECURSIVE TrimEnd(_)
TrimEnd(s) ==
    IF s # <<>> /\ s[Len(s)] \in Whitespace THEN TrimEnd(SubSeq(s, 1, Len(s) - 1)) ELSE s
Trim(s) == TrimEnd(TrimStart(s))

\* /^[A-Z]/.test(task.title)
StartsWithCapital(s) == s # <<>> /\ s[1] \in AsciiUppercase

\* variant: a missing importance is accepted
ImportanceMissing_accepted(t) == FALSE

\* !task.importance
ImportanceMissing(t) == ~Has(t, "importance") \/ t.importance = ""

\* !task.title || task.title.trim() === ''
TitleMissing(t) == ~Has(t, "title") \/ t.title = <<>> \/ Trim(t.title) = <<>>

validateTask(t) ==
    LET titleRequired ==
            IF TitleMissing(t) THEN <<"Title is required">> ELSE <<>>
        titleCapital ==
            IF Has(t, "title") /\ t.title # <<>> /\ ~StartsWithCapital(t.title)
              THEN <<"Title should start with a capital letter">> ELSE <<>>
        importanceRequired ==
            IF ImportanceMissing(t) THEN <<"Importance is required">> ELSE <<>>
        importanceValue ==
            IF Has(t, "importance") /\ t.importance # "" /\ t.importance \notin Importances
              THEN <<"Invalid importance value">> ELSE <<>>
        labelValue ==
            IF Has(t, "label") /\ t.label # "" /\ t.label \notin Labels
              THEN <<"Invalid label value">> ELSE <<>>
        errors == titleRequired \o titleCapital \o importanceRequired
                     \o importanceValue \o labelValue
    IN [valid |-> Len(errors) = 0, errors |-> errors]

(* The tasks handed to validateTask *)
\* titles have at most MaxTitleLen characters
MaxTitleLen == 2
Titles == UNION {[1..n -> Alphabet] : n \in 0..MaxTitleLen}
Descriptions == {<<>>, <<"t">>}
Opt(S) == {<<>>} \cup {<<v>> : v \in S}
Field(n, o) == IF o = <<>> THEN NoTask ELSE (n :> o[1])
Tasks ==
    { Field("title", ot) @@ Field("description", od) @@ Field("importance", oi)
        @@ Field("label", ol) @@ Field("completed", oc) :
        ot \in Opt(Titles), od \in Opt(Descriptions),
        oi \in Opt(Importances \cup {"", "Invalid"}),
        ol \in Opt(Labels \cup {"", "Invalid"}),
        oc \in Opt(BOOLEAN) }

TaskIdle ==
    /\ task = NoTask /\ validation = NoValidation /\ origin = "none"
    /\ combinations = <<>> /\ prevCombinations = <<>> /\ genCalls = 0
    /\ overrides = NoTask

\* a test calls TaskService.validateTask(task)
ValidateTask ==
    /\ origin # "none"
    /\ validation = NoValidation
    /\ validation' = validateTask(task)
    /\ UNCHANGED <<task, origin, combinations, prevCombinations, genCalls, overrides>>

(* String literals of TaskService, as character sequences *)
Chars(w) ==
    CASE w = "High" -> <<"H", "i", "g", "h">>
      [] w = "Medium" -> <<"M", "e", "d", "i", "u", "m">>
      [] w = "Low" -> <<"L", "o", "w">>
      [] w = "Work" -> <<"W", "o", "r", "k">>
      [] w = "Social" -> <<"S", "o", "c", "i", "a", "l">>
      [] w = "Home" -> <<"H", "o", "m", "e">>
      [] w = "Hobby" -> <<"H", "o", "b", "b", "y">>
      [] w = "Invalid" -> <<"I", "n", "v", "a", "l", "i", "d">>
      [] w = "All" -> <<"A", "l", "l">>
      [] w = "" -> <<>>

\* variant: the completed states list repeats true
completedStates_repeated == <<TRUE, TRUE>>

\* generateAllCombinations: the three value lists, in source order
importances == <<"High", "Medium", "Low">>
labels == <<"Work", "Social", "Home", "Hobby">>
completedStates == <<TRUE, FALSE>>

\* combinations.push({ title: `Task ${importance} ${label} ${...}`, description: ..., ... })
Combination(importance, label, completed) ==
    [title |-> <<"T", "a", "s", "k", " ">> \o Chars(importance) \o <<" ">> \o Chars(label) \o <<" ">>
                 \o (IF completed THEN <<"D", "o", "n", "e">> ELSE <<"P", "e", "n", "d", "i", "n", "g">>),
     description |-> <<"T", "a", "s", "k", " ", "w", "i", "t", "h", " ">> \o Chars(importance) \o <<" ", "i", "m", "p", "o", "r", "t", "a", "n", "c", "e", ",", " ">>
                 \o Chars(label) \o <<" ", "l", "a", "b", "e", "l", ",", " ">>
                 \o (IF completed THEN <<"c", "o", "m", "p", "l", "e", "t", "e", "d">> ELSE <<"p", "e", "n", "d", "i", "n", "g">>),
     importance |-> importance,
     label |-> label,
     completed |-> completed]

\* completedStates.forEach((completed) => combinations.push(...))
RECURSIVE ForEachCompleted(_, _, _)
ForEachCompleted(importance, label, k) ==
    IF k > Len(completedStates) THEN <<>>
    ELSE <<Combination(importance, label, completedStates[k])>>
           \o ForEachCompleted(importance, label, k + 1)

\* labels.forEach((label) => ...)
RECURSIVE ForEachLabel(_, _)
ForEachLabel(importance, j) ==
    IF j > Len(labels) THEN <<>>
    ELSE ForEachCompleted(importance, labels[j], 1) \o ForEachLabel(importance, j + 1)

\* importances.forEach((importance) => ...)
RECURSIVE ForEachImportance(_)
ForEachImportance(i) ==
    IF i > Len(importances) THEN <<>>
    ELSE ForEachLabel(importances[i], 1) \o ForEachImportance(i + 1)

generateAllCombinations == ForEachImportance(1)

\* a test calls TaskService.generateAllCombinations(), up to twice
GenerateAllCombinations ==
    /\ origin = "none"
    /\ genCalls < 2
    /\ combinations' = generateAllCombinations
    /\ prevCombinations' = combinations
    /\ genCalls' = genCalls + 1
    /\ UNCHANGED <<task, validation, origin, overrides>>

InvalidKinds == {"no-title", "lowercase-title", "invalid-importance", "invalid-label"}

\* variant: the no-title record is blank, not empty
createInvalidTask_blank(type) ==
    CASE type = "no-title" -> [title |-> <<" ">>, importance |-> "Medium"]
      [] type = "lowercase-title" ->
           [title |-> <<"l", "o", "w", "e", "r", "c", "a", "s", "e", " ", "t", "i", "t", "l", "e">>, importance |-> "Medium"]
      [] type = "invalid-importance" ->
           [title |-> <<"V", "a", "l", "i", "d", " ", "T", "i", "t", "l", "e">>, importance |-> "Invalid"]
      [] type = "invalid-label" ->
           [title |-> <<"V", "a", "l", "i", "d", " ", "T", "i", "t", "l", "e">>, importance |-> "Medium", label |-> "Invalid"]
      [] OTHER -> NoTask

createInvalidTask(type) ==
    CASE type = "no-title" -> [title |-> <<>>, importance |-> "Medium"]
      [] type = "lowercase-title" ->
           [title |-> <<"l", "o", "w", "e", "r", "c", "a", "s", "e", " ", "t", "i", "t", "l", "e">>, importance |-> "Medium"]
      [] type = "invalid-importance" ->
           [title |-> <<"V", "a", "l", "i", "d", " ", "T", "i", "t", "l", "e">>, importance |-> "Invalid"]
      [] type = "invalid-label" ->
           [title |-> <<"V", "a", "l", "i", "d", " ", "T", "i", "t", "l", "e">>, importance |-> "Medium", label |-> "Invalid"]
      [] OTHER -> NoTask

\* a test calls TaskService.createInvalidTask(type)
CreateInvalidTask ==
    /\ origin = "none" /\ genCalls = 0
    /\ \E type \in InvalidKinds \cup {"other"} :
         /\ task' = createInvalidTask(type)
         /\ origin' = type
    /\ UNCHANGED <<validation, combinations, prevCombinations, genCalls, overrides>>

\* variant: the defaults are spread after the overrides
createValidTask_defaultsLast(o) ==
    [title |-> <<"T", "e", "s", "t", " ", "T", "a", "s", "k">>,
     description |-> <<"T", "e", "s", "t", " ", "d", "e", "s", "c", "r", "i", "p", "t", "i", "o", "n">>,
     importance |-> "Medium", label |-> "Work", completed |-> FALSE] @@ o

\* createValidTask(overrides): { title: 'Test Task', ..., completed: false, ...overrides }
createValidTask(o) ==
    o @@ [title |-> <<"T", "e", "s", "t", " ", "T", "a", "s", "k">>,
          description |-> <<"T", "e", "s", "t", " ", "d", "e", "s", "c", "r", "i", "p", "t", "i", "o", "n">>,
          importance |-> "Medium", label |-> "Work", completed |-> FALSE]

\* a test calls TaskService.createValidTask(overrides), or createValidTask()
CreateValidTask ==
    /\ origin = "none" /\ genCalls = 0
    /\ \E o \in Tasks :
         /\ overrides' = o
         /\ task' = createValidTask(o)
    /\ origin' = "createValidTask"
    /\ UNCHANGED <<validation, combinations, prevCombinations, genCalls>>

\* createMinimalTask(overrides): { title: 'Minimal Task', importance: 'Medium', ...overrides }
createMinimalTask(o) ==
    o @@ [title |-> <<"M", "i", "n", "i", "m", "a", "l", " ", "T", "a", "s", "k">>, importance |-> "Medium"]

\* a test calls TaskService.createMinimalTask(overrides), or createMinimalTask()
CreateMinimalTask ==
    /\ origin = "none" /\ genCalls = 0
    /\ \E o \in Tasks :
         /\ overrides' = o
         /\ task' = createMinimalTask(o)
    /\ origin' = "createMinimalTask"
    /\ UNCHANGED <<validation, combinations, prevCombinations, genCalls>>

\* createRandomTask: the two text pools
titles ==
    << <<"C", "o", "m", "p", "l", "e", "t", "e", " ", "p", "r", "o", "j", "e", "c", "t", " ", "d", "o", "c", "u", "m", "e", "n", "t", "a", "t", "i", "o", "n">>,
       <<"R", "e", "v", "i", "e", "w", " ", "p", "u", "l", "l", " ", "r", "e", "q", "u", "e", "s", "t", "s">>,
       <<"U", "p", "d", "a", "t", "e", " ", "d", "e", "p", "e", "n", "d", "e", "n", "c", "i", "e", "s">>,
       <<"F", "i", "x", " ", "c", "r", "i", "t", "i", "c", "a", "l", " ", "b", "u", "g">>,
       <<"I", "m", "p", "l", "e", "m", "e", "n", "t", " ", "n", "e", "w", " ", "f", "e", "a", "t", "u", "r", "e">> >>
descriptions ==
    << <<"T", "h", "i", "s", " ", "i", "s", " ", "a", " ", "d", "e", "t", "a", "i", "l", "e", "d", " ", "d", "e", "s", "c", "r", "i", "p", "t", "i", "o", "n", " ", "o", "f", " ", "t", "h", "e", " ", "t", "a", "s", "k">>,
       <<"S", "o", "m", "e", " ", "i", "m", "p", "o", "r", "t", "a", "n", "t", " ", "n", "o", "t", "e", "s", " ", "a", "b", "o", "u", "t", " ", "t", "h", "i", "s", " ", "t", "a", "s", "k">>,
       <<"M", "a", "k", "e", " ", "s", "u", "r", "e", " ", "t", "o", " ", "f", "o", "l", "l", "o", "w", " ", "t", "h", "e", " ", "g", "u", "i", "d", "e", "l", "i", "n", "e", "s">>,
       <<>> >>

\* Math.random() is k / RandomSteps for some k in 0 .. RandomSteps - 1
RandomDraws == 0..(RandomSteps - 1)

\* variant: Math.ceil in place of Math.floor
RandomIndex_ceil(k, n) == (k * n + RandomSteps - 1) \div RandomSteps

\* Math.floor(Math.random() * n)
RandomIndex(k, n) == (k * n) \div RandomSteps

\* array[index] of a zero-based array: undefined outside it, the property then counts
\* as not set
Element(name, array, index) ==
    IF index + 1 \in DOMAIN array THEN (name :> array[index + 1]) ELSE NoTask

\* createRandomTask, for the five values Math.random() returned
createRandomTask(k1, k2, k3, k4, k5) ==
    Element("title", titles, RandomIndex(k1, Len(titles)))
      @@ Element("description", descriptions, RandomIndex(k2, Len(descriptions)))
      @@ Element("importance", importances, RandomIndex(k3, Len(importances)))
      @@ Element("label", labels, RandomIndex(k4, Len(labels)))
      @@ ("completed" :> (2 * k5 > RandomSteps))

\* a test calls TaskService.createRandomTask()
CreateRandomTask ==
    /\ origin = "none" /\ genCalls = 0
    /\ \E k1, k2, k3, k4, k5 \in RandomDraws : task' = createRandomTask(k1, k2, k3, k4, k5)
    /\ origin' = "createRandomTask"
    /\ UNCHANGED <<validation, combinations, prevCombinations, genCalls, overrides>>

---------------------------------------------------------------------------
(* Test runs: the fixtures of fixtures/index.ts under the Playwright runner.
   The configuration sets fullyParallel, so the tests of a run are spread over
   worker processes; a worker process runs one test at a time, and a module
   level object such as Logger.instance exists once per worker process.  A
   fixture function runs up to its use() call before the body, and the rest of
   it after the body has ended, whatever the body's outcome. *)

Tests == {1, 2}       \* two tests of one run
Workers == {1, 2}     \* the worker processes of the runner
Fixtures == {"testDataService", "logger", "screenshotHelper"}
\* what a test body destructures: everything, or everything but testDataService
Requests == {Fixtures, Fixtures \ {"testDataService"}}
Levels == {"INFO", "ERROR", "WARN", "DEBUG"}
BodyOutcomes == {"pass", "fail", "timeout"}
ScreenshotNames == {"before-action"}

\* variant: the fixture ends at use()
testDataServiceFixture_nocleanup == <<"construct", "use">>

\* testDataService: new TestDataService(page); await use(...); await resetState()
testDataServiceFixture == <<"construct", "use", "resetState">>

\* position of use() in a fixture function
RECURSIVE UseAt(_, _)
UseAt(f, i) == IF i > Len(f) THEN Len(f) + 1
               ELSE IF f[i] = "use" THEN i ELSE UseAt(f, i + 1)

\* the statements of a fixture function up to and including use()
FixtureSetup(f) == SubSeq(f, 1, UseAt(f, 1))
\* the statements after use()
FixtureTeardown(f) == SubSeq(f, UseAt(f, 1) + 1, Len(f))

\* variant: one Logger for the whole run
LoggerInstance_global(w) == 1

\* Logger.getInstance(): the static instance of the calling process
LoggerInstance(w) == w

\* variant: the fixture hands the logger over as it is
ClearedLogs_kept(logs) == logs

\* logger.clearLogs(): this.logs = []
ClearedLogs(logs) == <<>>

\* Logger.info/error/warn/debug: `[LEVEL] [timestamp] message`
LogLine(level, ts, test) == <<level, ts, test>>

\* ScreenshotHelper.takeScreenshot: path.join(screenshotDir, `${name}_${timestamp}.png`)
ScreenshotPath(name, ts) == <<"screenshots", name, ts>>

\* page.screenshot({ path }): the file at path is created or replaced
WriteFile(files, path, t) ==
    {f \in files : f.path # path} \cup {[path |-> path, owner |-> t]}

RunIdle ==
    /\ phase = [t \in Tests |-> "pending"]
    /\ worker = [t \in Tests |-> 0]
    /\ requested = [t \in Tests |-> {}]
    /\ outcome = [t \in Tests |-> "none"]
    /\ events = [t \in Tests |-> <<>>]
    /\ loggerLogs = [w \in Workers |-> <<>>]
    /\ logged = [t \in Tests |-> <<>>]
    /\ clock = 0
    /\ sink = {}
    /\ shots = [t \in Tests |-> {}]

Busy(w) == \E t \in Tests : worker[t] = w /\ phase[t] \in {"setup", "body", "teardown"}

\* the runner hands a pending test to a free worker process
Schedule(t, w) ==
    /\ phase[t] = "pending"
    /\ ~Busy(w)
    /\ \E fs \in Requests : requested' = [requested EXCEPT ![t] = fs]
    /\ phase' = [phase EXCEPT ![t] = "setup"]
    /\ worker' = [worker EXCEPT ![t] = w]
    /\ UNCHANGED <<outcome, events, loggerLogs, logged, clock, sink, shots>>

\* the requested fixtures run up to use(): the logger fixture takes the
\* instance of its process and clears it; then the body starts, unless another
\* fixture (taskManagerPage: navigate) raised
SetupFixtures(t, ok) ==
    /\ phase[t] = "setup"
    /\ events' = [events EXCEPT ![t] =
          (IF "testDataService" \in requested[t]
             THEN FixtureSetup(testDataServiceFixture) ELSE <<>>)
          \o (IF ok THEN <<"bodyStart">> ELSE <<>>)]
    /\ loggerLogs' = IF "logger" \in requested[t]
                       THEN [loggerLogs EXCEPT ![LoggerInstance(worker[t])] = ClearedLogs(@)]
                       ELSE loggerLogs
    /\ phase' = [phase EXCEPT ![t] = IF ok THEN "body" ELSE "teardown"]
    /\ outcome' = [outcome EXCEPT ![t] = IF ok THEN "none" ELSE "setupFailed"]
    /\ UNCHANGED <<worker, requested, logged, clock, sink, shots>>

\* the body calls logger.info / error / warn / debug
Log(t, level) ==
    /\ phase[t] = "body"
    /\ "logger" \in requested[t]
    /\ Len(logged[t]) < MaxLogLines
    /\ loggerLogs' = [loggerLogs EXCEPT ![LoggerInstance(worker[t])] =
                         Append(@, LogLine(level, clock, t))]
    /\ logged' = [logged EXCEPT ![t] = Append(@, LogLine(level, clock, t))]
    /\ UNCHANGED <<phase, worker, requested, outcome, events, clock, sink, shots>>

\* Logger.getLogs(): a copy of the lines of the instance
getLogs(t) == loggerLogs[LoggerInstance(worker[t])]

\* the body calls screenshotHelper.takeScreenshot(page, name)
TakeScreenshot(t, name) ==
    /\ phase[t] = "body"
    /\ "screenshotHelper" \in requested[t]
    /\ sink' = WriteFile(sink, ScreenshotPath(name, clock), t)
    /\ shots' = [shots EXCEPT ![t] = @ \cup {ScreenshotPath(name, clock)}]
    /\ UNCHANGED <<phase, worker, requested, outcome, events, loggerLogs, logged, clock>>

\* a millisecond passes
ClockTick ==
    /\ clock < MaxClock
    /\ clock' = clock + 1
    /\ UNCHANGED <<phase, worker, requested, outcome, events, loggerLogs, logged, sink, shots>>

\* the body returns, raises, or is stopped at the test timeout
BodyEnds(t, o) ==
    /\ phase[t] = "body"
    /\ phase' = [phase EXCEPT ![t] = "teardown"]
    /\ outcome' = [outcome EXCEPT ![t] = o]
    /\ events' = [events EXCEPT ![t] = Append(@, "bodyEnd")]
    /\ UNCHANGED <<worker, requested, loggerLogs, logged, clock, sink, shots>>

\* use() resolves in every fixture that was set up and the rest of the fixture
\* function runs; then the test has ended and its worker is free
TeardownFixtures(t) ==
    /\ phase[t] = "teardown"
    /\ events' = [events EXCEPT ![t] =
          @ \o (IF "testDataService" \in requested[t]
                  THEN FixtureTeardown(testDataServiceFixture) ELSE <<>>)]
    /\ phase' = [phase EXCEPT ![t] = "ended"]
    /\ worker' = [worker EXCEPT ![t] = 0]
    /\ UNCHANGED <<requested, outcome, loggerLogs, logged, clock, sink, shots>>

---------------------------------------------------------------------------
(* The persisted store: TestDataService.resetState / getStoredTasks /
   setStoredTasks and TaskManagerPage.getTasksFromLocalStorage.

   A stored text is a sequence of JSON tokens <<kind, payload>>: punctuation
   ("p"), a string literal ("str") or a literal name ("lit").  The empty text
   is the empty string.  A record is a function from the fields it has to
   their values. *)

P(c) == <<"p", c>>
S(v) == <<"str", v>>
L(v) == <<"lit", v>>

FieldOrder == <<"title", "description", "importance", "label", "completed">>

\* JSON.stringify of one property value: completed is the boolean property of a Task
ValueToken(t, k) == IF k = "completed" THEN L(IF t[k] THEN "true" ELSE "false") ELSE S(t[k])

\* variant: a false completed flag is left out of the text
MemberWritten_truthy(t, k) == k \in DOMAIN t /\ (k = "completed" => t[k])

\* JSON.stringify writes the properties the object has
MemberWritten(t, k) == k \in DOMAIN t

RECURSIVE Members(_, _, _)
Members(t, i, first) ==
    IF i > Len(FieldOrder) THEN <<>>
    ELSE IF MemberWritten(t, FieldOrder[i])
           THEN (IF first THEN <<>> ELSE <<P(",")>>)
                \o <<S(FieldOrder[i]), P(":"), ValueToken(t, FieldOrder[i])>>
                \o Members(t, i + 1, FALSE)
           ELSE Members(t, i + 1, first)

RECURSIVE Elements(_, _)
Elements(list, i) ==
    IF i > Len(list) THEN <<>>
    ELSE (IF i = 1 THEN <<>> ELSE <<P(",")>>)
         \o <<P("{")>> \o Members(list[i], 1, TRUE) \o <<P("}")>>
         \o Elements(list, i + 1)

\* JSON.stringify(tasksToStore)
stringify(list) == <<P("[")>> \o Elements(list, 1) \o <<P("]")>>

Tok(text, i) == IF i \in DOMAIN text THEN text[i] ELSE <<"eof", "">>
ParseFailed == [ok |-> FALSE, value |-> <<>>, next |-> 0]
IsValueToken(tok) == tok[1] = "str" \/ (tok[1] = "lit" /\ tok[2] \in {"true", "false"})
TokenValue(tok) == IF tok[1] = "str" THEN tok[2] ELSE tok[2] = "true"

\* JSON.parse, the members of an object from position i on
RECURSIVE ParseMembers(_, _, _)
ParseMembers(text, i, acc) ==
    IF Tok(text, i)[1] = "str" /\ Tok(text, i + 1) = P(":") /\ IsValueToken(Tok(text, i + 2))
      THEN LET obj == (Tok(text, i)[2] :> TokenValue(Tok(text, i + 2))) @@ acc
           IN  IF Tok(text, i + 3) = P("}") THEN [ok |-> TRUE, value |-> obj, next |-> i + 4]
               ELSE IF Tok(text, i + 3) = P(",") THEN ParseMembers(text, i + 4, obj)
               ELSE ParseFailed
      ELSE ParseFailed

\* JSON.parse, an object starting at position i
ParseObject(text, i) ==
    IF Tok(text, i) # P("{") THEN ParseFailed
    ELSE IF Tok(text, i + 1) = P("}")
           THEN [ok |-> TRUE, value |-> [f \in {} |-> <<>>], next |-> i + 2]
    ELSE ParseMembers(text, i + 1, [f \in {} |-> <<>>])

\* JSON.parse, the elements of an array from position i on
RECURSIVE ParseElements(_, _, _)
ParseElements(text, i, acc) ==
    LET o == ParseObject(text, i)
    IN  IF ~o.ok THEN ParseFailed
        ELSE IF Tok(text, o.next) = P("]")
               THEN [ok |-> TRUE, value |-> Append(acc, o.value), next |-> o.next + 1]
        ELSE IF Tok(text, o.next) = P(",")
               THEN ParseElements(text, o.next + 1, Append(acc, o.value))
        ELSE ParseFailed

\* JSON.parse(text): raises (ok = FALSE) unless the whole text is one JSON value;
\* isArray tells an array from the other values (null, an object)
parse(text) ==
    LET failed == [ok |-> FALSE, isArray |-> FALSE, value |-> <<>>]
    IN  IF text = <<>> THEN failed
        ELSE IF text = <<L("null")>> THEN [ok |-> TRUE, isArray |-> FALSE, value |-> <<>>]
        ELSE IF text[1] = P("{")
               THEN LET o == ParseObject(text, 1)
                    IN  IF o.ok /\ o.next = Len(text) + 1
                          THEN [ok |-> TRUE, isArray |-> FALSE, value |-> <<>>]
                          ELSE failed
        ELSE IF text[1] = P("[")
               THEN IF text = <<P("["), P("]")>>
                      THEN [ok |-> TRUE, isArray |-> TRUE, value |-> <<>>]
                      ELSE LET a == ParseElements(text, 2, <<>>)
                           IN  IF a.ok /\ a.next = Len(text) + 1
                                 THEN [ok |-> TRUE, isArray |-> TRUE, value |-> a.value]
                                 ELSE failed
        ELSE failed

Keys == {"tasks", "theme"}
EmptyStorage == [k \in {} |-> <<>>]
getItem(storage, k) == IF k \in DOMAIN storage THEN storage[k] ELSE <<>>
Present(storage, k) == k \in DOMAIN storage
setItem(storage, k, text) == (k :> text) @@ storage

\* `stored ? ... : ...`: null (no such key) and the empty string are falsy
Truthy(storage, k) == Present(storage, k) /\ getItem(storage, k) # <<>>

\* getStoredTasks / getTasksFromLocalStorage:
\*   const stored = localStorage.getItem('tasks'); return stored ? JSON.parse(stored) : [];
getStoredTasks(storage) ==
    IF Truthy(storage, "tasks")
      THEN LET r == parse(getItem(storage, "tasks"))
           IN  IF r.ok THEN [raised |-> FALSE, isArray |-> r.isArray, value |-> r.value]
               ELSE [raised |-> TRUE, isArray |-> FALSE, value |-> <<>>]
      ELSE [raised |-> FALSE, isArray |-> TRUE, value |-> <<>>]

NotRead == [raised |-> FALSE, isArray |-> FALSE, value |-> <<"not read">>]

\* variant: only the session storage is cleared
ClearedLocalStorage_kept(storage) == storage

\* localStorage.clear()
ClearedLocalStorage(storage) == EmptyStorage

\* the records a test stores: a title alone, or every field of a Task
StoredRecords ==
    { [title |-> "Task A"],
      [title |-> "Task B", description |-> "Text", importance |-> "Low", label |-> "Home",
       completed |-> FALSE] }
StoredLists == UNION {[1..n -> StoredRecords] : n \in 0..MaxStored}

\* a text cut off before its end
Truncations(text) == {SubSeq(text, 1, n) : n \in 0..(Len(text) - 1)}

\* the values the 'tasks' key can hold before an operation: what the application or
\* setStoredTasks wrote, a truncation of it (the empty string included), null, an object
StoredTexts ==
    {stringify(l) : l \in StoredLists}
      \cup UNION {Truncations(stringify(l)) : l \in StoredLists}
      \cup {<<L("null")>>, <<P("{"), P("}")>>}

\* the application starts from the list under 'tasks', from no task without one
AppLoad(storage) ==
    LET r == getStoredTasks(storage)
    IN  IF ~r.raised /\ r.isArray THEN r.value ELSE <<>>

StoreIdle ==
    /\ localStorage = EmptyStorage /\ sessionStorage = EmptyStorage
    /\ appTasks = <<>> /\ appWrote = FALSE /\ lastSet = <<>> /\ got = NotRead
    /\ prevOp = "none" /\ lastOp = "none" /\ lastSteps = <<>>

\* resetState: evaluate(localStorage.clear(); sessionStorage.clear()); page.reload()
ResetState ==
    /\ localStorage' = ClearedLocalStorage(localStorage)
    /\ sessionStorage' = EmptyStorage
    /\ appTasks' = AppLoad(ClearedLocalStorage(localStorage))
    /\ lastSteps' = <<"localStorage.clear", "sessionStorage.clear", "reload">>
    /\ prevOp' = lastOp /\ lastOp' = "resetState"
    /\ UNCHANGED <<appWrote, lastSet, got>>

\* setStoredTasks(tasks): evaluate(localStorage.setItem('tasks', JSON.stringify(tasks)));
\* page.reload()
SetStoredTasks(tasks) ==
    /\ localStorage' = setItem(localStorage, "tasks", stringify(tasks))
    /\ appTasks' = AppLoad(setItem(localStorage, "tasks", stringify(tasks)))
    /\ lastSet' = tasks
    /\ appWrote' = FALSE
    /\ lastSteps' = <<"localStorage.setItem", "reload">>
    /\ prevOp' = lastOp /\ lastOp' = "setStoredTasks"
    /\ UNCHANGED <<sessionStorage, got>>

\* getStoredTasks() of TestDataService, getTasksFromLocalStorage() of TaskManagerPage
GetStoredTasks ==
    /\ got' = getStoredTasks(localStorage)
    /\ lastSteps' = <<"localStorage.getItem">>
    /\ prevOp' = lastOp /\ lastOp' = "getStoredTasks"
    /\ UNCHANGED <<localStorage, sessionStorage, appTasks, appWrote, lastSet>>

\* the loaded application saves its list under 'tasks' (every record it holds
\* carries a completed flag); it does so on its own, between two test steps
AppPersist ==
    /\ lastOp # "none"
    /\ ~appWrote
    /\ LET saved == [i \in DOMAIN appTasks |->
                       IF "completed" \in DOMAIN appTasks[i] THEN appTasks[i]
                       ELSE ("completed" :> FALSE) @@ appTasks[i]]
       IN  localStorage' = setItem(localStorage, "tasks", stringify(saved))
    /\ appWrote' = TRUE
    /\ UNCHANGED <<sessionStorage, appTasks, lastSet, got, prevOp, lastOp, lastSteps>>

---------------------------------------------------------------------------
(* The newTask list page: TaskManagerPage.toggleTaskCompletion / deleteTask /
   editTask / filterByLabel / clearAllTasks and TestDataService.clearTestData.

   The application shows one card (.newTask-item) per newTask that passes the label
   filter, in list order, with the title in its h3.  A card is a record
   [title, label, completed]; a title is a sequence of characters. *)

PageTitles == {<<"T", "1">>, <<"T", "1", "0">>}
PageLabels == {"Work", "Home"}
Filters == {"All", "Work"}
Cards == [title : PageTitles, label : PageLabels, completed : BOOLEAN]
\* the lists a test starts from: tasks as addTask leaves them, not completed
CardLists == UNION {[1..n -> {c \in Cards : ~c.completed}] : n \in 0..MaxCards}

\* has-text matching ignores case
FoldCase(c) == IF c = "t" THEN "T" ELSE c
Fold(str) == [i \in DOMAIN str |-> FoldCase(str[i])]

\* has-text("..."): the text contains the given text
Contains(text, sub) ==
    \E k \in 0..(Len(text) - Len(sub)) :
        \A i \in 1..Len(sub) : Fold(text)[k + i] = Fold(sub)[i]

\* the cards on display, as positions in the list, in display order
RECURSIVE DisplayedFrom(_, _, _)
DisplayedFrom(cs, f, i) ==
    IF i > Len(cs) THEN <<>>
    ELSE (IF f = "All" \/ cs[i].label = f THEN <<i>> ELSE <<>>) \o DisplayedFrom(cs, f, i + 1)
Displayed(cs, f) == DisplayedFrom(cs, f, 1)
Range(q) == {q[i] : i \in DOMAIN q}

\* variant: the locator is narrowed to its first match
getTaskByTitle_first(cs, f, taskTitle) ==
    LET m == {i \in Range(Displayed(cs, f)) : Contains(cs[i].title, taskTitle)}
    IN  IF m = {} THEN {} ELSE {CHOOSE i \in m : \A j \in m : i <= j}

\* getTaskByTitle: page.locator(`.task-item:has(h3:has-text("${taskTitle}"))`),
\* the set of cards the locator resolves to
getTaskByTitle(cs, f, taskTitle) ==
    {i \in Range(Displayed(cs, f)) : Contains(cs[i].title, taskTitle)}

\* locator.click() is strict: it needs the locator to resolve to exactly one
\* element; with none it times out, with several it raises a strict mode violation
ClickTarget(matches) == IF Cardinality(matches) = 1 THEN CHOOSE i \in matches : TRUE ELSE 0

RemoveAt(cs, i) == SubSeq(cs, 1, i - 1) \o SubSeq(cs, i + 1, Len(cs))
RECURSIVE RemoveTitle(_, _)
RemoveTitle(cs, title) ==
    IF cs = <<>> THEN <<>>
    ELSE (IF Head(cs).title = title THEN <<>> ELSE <<Head(cs)>>) \o RemoveTitle(Tail(cs), title)

\* the application on a click on Delete of card i: the card goes; the application
\* is known to drop every task with the same title along with it
AppDelete(cs, i, sameTitleToo) ==
    IF sameTitleToo THEN RemoveTitle(cs, cs[i].title) ELSE RemoveAt(cs, i)

\* the application on a click on Complete / Uncomplete of card i
AppToggle(cs, i) == [cs EXCEPT ![i].completed = ~cs[i].completed]

Click(what, i) == <<"click", what, <<i>>>>
Clear(field) == <<"clear", field, <<>>>>
Fill(field, text) == <<"fill", field, text>>
Select(field, option) == <<"select", field, Chars(option)>>

\* the argument of editTask: records with any of the four fields, an empty
\* description, importance or label included
NewTasks ==
    { [title |-> <<"T", "1", "0">>],
      [title |-> <<"T", "1">>, description |-> <<>>],
      [title |-> <<"T", "1">>, importance |-> ""],
      [title |-> <<"T", "1">>, label |-> "Home"],
      [title |-> <<"T", "1">>, label |-> ""],
      [description |-> <<"d">>],
      [title |-> <<"T", "1", "0">>, description |-> <<"d">>, importance |-> "Low",
       label |-> "Work"] }
NoEdit == [f \in {} |-> <<>>]

\* variant: a select is issued for importance whatever the record holds
SelectsOption_always(newTask, field) == TRUE

\* fillEditForm: `if (task.importance)`, `if (task.label)`
SelectsOption(newTask, field) == Has(newTask, field) /\ newTask[field] # ""

\* fillEditForm: `if (task.title !== undefined)`, `if (task.description !== undefined)`
FillsText(newTask, field) == Has(newTask, field)

\* fillEditForm(newTask): the interactions with the inline edit form, in order
fillEditForm(newTask) ==
    (IF FillsText(newTask, "title")
       THEN <<Clear("title"), Fill("title", newTask.title)>> ELSE <<>>)
    \o (IF FillsText(newTask, "description")
       THEN <<Clear("description"), Fill("description", newTask.description)>> ELSE <<>>)
    \o (IF SelectsOption(newTask, "importance")
       THEN <<Select("importance", IF Has(newTask, "importance") THEN newTask.importance ELSE "")>>
       ELSE <<>>)
    \o (IF SelectsOption(newTask, "label")
       THEN <<Select("label", IF Has(newTask, "label") THEN newTask.label ELSE "")>> ELSE <<>>)

\* the application on Save: the card takes the values the form was given
AppSave(cs, i, newTask) ==
    [cs EXCEPT ![i] =
        [title |-> IF FillsText(newTask, "title") THEN newTask.title ELSE cs[i].title,
         label |-> IF SelectsOption(newTask, "label") /\ Has(newTask, "label")
                     THEN newTask.label ELSE cs[i].label,
         completed |-> cs[i].completed]]

\* clearAllTasks: while cards are displayed, read the title of the first one and
\* delete by that title; a card with an empty title is never deleted
RECURSIVE clearAllTasks(_, _, _, _)
clearAllTasks(cs, f, sameTitleToo, log) ==
    LET shown == Displayed(cs, f)
    IN  IF shown = <<>> THEN [cards |-> cs, result |-> "ok", log |-> log]
        ELSE LET title == cs[shown[1]].title
                 target == ClickTarget(getTaskByTitle(cs, f, title))
             IN  IF title = <<>> THEN [cards |-> cs, result |-> "hangs", log |-> log]
                 ELSE IF target = 0 THEN [cards |-> cs, result |-> "raised", log |-> log]
                 ELSE clearAllTasks(AppDelete(cs, target, sameTitleToo), f, sameTitleToo,
                                    Append(log, Click("Delete", target)))

PageIdle ==
    /\ cards = <<>> /\ filter = "All" /\ pageOp = "none" /\ pageArg = <<>>
    /\ editArg = NoEdit /\ pageResult = "none" /\ interactions = <<>> /\ prevCards = <<>>
    /\ setupArg = <<>>

Returns(name, arg, res, log) ==
    /\ pageResult # "hangs"
    /\ pageOp' = name /\ pageArg' = arg /\ pageResult' = res /\ interactions' = log
    /\ prevCards' = cards
    /\ UNCHANGED setupArg

\* filterByLabel(label): select the option in the filter control
FilterByLabel(label) ==
    /\ filter' = label
    /\ Returns("filterByLabel", <<>>, "ok", <<Select("filter", label)>>)
    /\ UNCHANGED <<cards, editArg>>

\* toggleTaskCompletion(taskTitle)
ToggleTaskCompletion(taskTitle) ==
    LET target == ClickTarget(getTaskByTitle(cards, filter, taskTitle))
    IN  /\ cards' = IF target = 0 THEN cards ELSE AppToggle(cards, target)
        /\ Returns("toggleTaskCompletion", taskTitle,
                   IF target = 0 THEN "raised" ELSE "ok",
                   IF target = 0 THEN <<>> ELSE <<Click("Toggle", target)>>)
        /\ UNCHANGED <<filter, editArg>>

\* deleteTask(taskTitle)
DeleteTask(taskTitle, sameTitleToo) ==
    LET target == ClickTarget(getTaskByTitle(cards, filter, taskTitle))
    IN  /\ cards' = IF target = 0 THEN cards ELSE AppDelete(cards, target, sameTitleToo)
        /\ Returns("deleteTask", taskTitle,
                   IF target = 0 THEN "raised" ELSE "ok",
                   IF target = 0 THEN <<>> ELSE <<Click("Delete", target)>>)
        /\ UNCHANGED <<filter, editArg>>

\* editTask(oldTitle, newTask): clickEditTask, fillEditForm, saveEditedTask
EditTask(oldTitle, newTask) ==
    LET target == ClickTarget(getTaskByTitle(cards, filter, oldTitle))
    IN  /\ cards' = IF target = 0 THEN cards ELSE AppSave(cards, target, newTask)
        /\ editArg' = newTask
        /\ Returns("editTask", oldTitle,
                   IF target = 0 THEN "raised" ELSE "ok",
                   IF target = 0 THEN <<>>
                   ELSE <<Click("Edit", target)>> \o fillEditForm(newTask)
                        \o <<Click("Save", target)>>)
        /\ UNCHANGED filter

\* a read of an element of card i
Read(what, i) == <<"read", what, <<i>>>>

\* getTaskDetails(taskTitle): null unless the locator is visible (isVisible raises on
\* several matches, which is caught as not visible); else the texts of the card
GetTaskDetails(taskTitle) ==
    LET target == ClickTarget(getTaskByTitle(cards, filter, taskTitle))
    IN  /\ Returns("getTaskDetails", taskTitle,
                   IF target = 0 THEN "null" ELSE "details",
                   IF target = 0 THEN <<>>
                   ELSE <<Read("h3", target), Read("description", target),
                          Read("importance", target), Read("label", target),
                          Read("class", target)>>)
        /\ UNCHANGED <<cards, filter, editArg>>

\* TestDataService.clearTestData(): taskManagerPage.clearAllTasks()
ClearTestData(sameTitleToo) ==
    LET r == clearAllTasks(cards, filter, sameTitleToo, <<>>)
    IN  /\ cards' = r.cards
        /\ Returns("clearTestData", <<>>, r.result, r.log)
        /\ UNCHANGED <<filter, editArg>>

---------------------------------------------------------------------------
(* TestDataService.setupTestData and TaskManagerPage.addTask *)

Goto(url) == <<"goto", url, <<>>>>
WaitForTimeout(what) == <<"waitForTimeout", what, <<>>>>

\* the records a test hands to setupTestData; one has an importance the form's
\* select does not offer
SetupRecords ==
    { [title |-> <<"T", "1">>],
      [title |-> <<"T", "1">>, label |-> "Home"],
      [title |-> <<"T", "1", "0">>, description |-> <<"d">>, importance |-> "High"],
      [title |-> <<"T", "1", "0">>, importance |-> "Invalid"] }
SetupLists == UNION {[1..n -> SetupRecords] : n \in 0..MaxSetup}

\* selectOption raises when the select has no such option
OptionMissing(step) ==
    step[1] = "select" /\ step[3] \notin {Chars(o) : o \in Importances \cup Labels}

\* the interactions made until one raises, that one included
RECURSIVE UntilRaise(_)
UntilRaise(steps) ==
    IF steps = <<>> THEN <<>>
    ELSE IF OptionMissing(Head(steps)) THEN <<Head(steps)>>
    ELSE <<Head(steps)>> \o UntilRaise(Tail(steps))

\* fillTaskForm(task): title and description cleared and filled when defined,
\* importance and label selected when truthy
fillTaskForm(newTask) ==
    (IF FillsText(newTask, "title")
       THEN <<Clear("title"), Fill("title", newTask.title)>> ELSE <<>>)
    \o (IF FillsText(newTask, "description")
       THEN <<Clear("description"), Fill("description", newTask.description)>> ELSE <<>>)
    \o (IF SelectsOption(newTask, "importance")
       THEN <<Select("importance", newTask.importance)>> ELSE <<>>)
    \o (IF SelectsOption(newTask, "label")
       THEN <<Select("label", newTask.label)>> ELSE <<>>)

\* submitTask: click the Add button, then waitForTimeout(500)
submitTask == <<Click("Add", 0), WaitForTimeout("submit")>>

\* variant: the submit is issued a second time
addTask_twice(newTask) == fillTaskForm(newTask) \o submitTask \o submitTask

\* addTask(task): fillTaskForm, then submitTask
addTask(newTask) == fillTaskForm(newTask) \o submitTask

\* the application on a click on Add: one more task at the end of the list, with
\* what the form holds (label Work unless one was selected)
AppAdd(cs, newTask) ==
    Append(cs, [title |-> IF FillsText(newTask, "title") THEN newTask.title ELSE <<>>,
                label |-> IF SelectsOption(newTask, "label") THEN newTask.label ELSE "Work",
                completed |-> FALSE])

RECURSIVE Count(_, _)
Count(log, entry) ==
    IF log = <<>> THEN 0
    ELSE (IF Head(log) = entry THEN 1 ELSE 0) + Count(Tail(log), entry)

\* for (const task of tasks) await addTask(task): stops at the first add that raises
RECURSIVE addEach(_, _, _, _)
addEach(tasks, i, cs, log) ==
    IF i > Len(tasks) THEN [cards |-> cs, result |-> "ok", log |-> log]
    ELSE LET steps == addTask(tasks[i])
             added == Count(steps, Click("Add", 0))
         IN  IF UntilRaise(steps) # steps
               THEN [cards |-> cs, result |-> "raised", log |-> log \o UntilRaise(steps)]
             ELSE
             addEach(tasks, i + 1,
                     IF added = 0 THEN cs
                     ELSE IF added = 1 THEN AppAdd(cs, tasks[i])
                     ELSE AppAdd(AppAdd(cs, tasks[i]), tasks[i]),
                     log \o steps)

\* setupTestData(tasks): navigate(), then the adds; navigate raises when the
\* application does not load
setupTestData(tasks, loads, cs) ==
    IF ~loads THEN [cards |-> cs, result |-> "raised", log |-> <<Goto("/")>>]
    ELSE addEach(tasks, 1, cs, <<Goto("/")>>)

\* a test calls testDataService.setupTestData(tasks)
SetupTestData(tasks, loads) ==
    LET r == setupTestData(tasks, loads, cards)
    IN  /\ pageOp = "none"
        /\ cards' = r.cards
        /\ filter' = "All"
        /\ setupArg' = tasks
        /\ pageOp' = "setupTestData" /\ pageArg' = <<>>
        /\ pageResult' = r.result /\ interactions' = r.log
        /\ prevCards' = cards
        /\ UNCHANGED editArg

---------------------------------------------------------------------------
(* tests/specs/deleteTask.spec.ts: 'Create and delete multiple tasks with counts' *)

Task1 == <<"T", "1">>
Task2 == <<"T", "2">>
Task4 == <<"T", "4">>
RegressionTitles == {Task1, Task2, Task4}

\* the task lists of the test: the test's own list has 'Task 1' first and
\* 'Task 4' twice; here every list of these titles
RegressionLists == UNION {[1..n -> RegressionTitles] : n \in 2..MaxRegression}

\* the statements of the test body after the adds; a count is tasks.length
\* minus the number given
RegressionTest ==
    << <<"addTask", <<>>, 0>>,
       <<"assertTaskCount", <<>>, 0>>,
       <<"deleteByTitle", Task1, 0>>,
       <<"assertTaskCount", <<>>, 1>>,
       <<"deleteByTitle", Task4, 0>>,
       <<"assertTaskCount", <<>>, 2>>,
       <<"reload", <<>>, 0>>,
       <<"assertTaskCount", <<>>, 2>> >>

Statement == RegressionTest[testStep + 1]
AtStatement(name) ==
    /\ verdict = "running"
    /\ testStep < Len(RegressionTest)
    /\ Statement[1] = name

\* the verdict after a statement whose checks passed or did not
After(passes) ==
    IF ~passes THEN "failed"
    ELSE IF testStep + 1 = Len(RegressionTest) THEN "passed"
    ELSE "running"

\* \w of a regular expression
WordChar(c) == c \in {"T", "t", "0", "1", "2", "4"}

\* new RegExp(`\\b${title}\\b`, 'i') matches the text
WordMatch(text, sub) ==
    \E k \in 0..(Len(text) - Len(sub)) :
        /\ \A i \in 1..Len(sub) : Fold(text)[k + i] = Fold(sub)[i]
        /\ (k = 0 \/ ~WordChar(text[k]) \/ ~WordChar(sub[1]))
        /\ (k + Len(sub) = Len(text) \/ ~WordChar(text[k + Len(sub) + 1])
              \/ ~WordChar(sub[Len(sub)]))

\* TaskListPage.countAllTasks(page, title)
countAllTasks(titles_shown, title) ==
    IF title # <<>>
      THEN Cardinality({i \in DOMAIN titles_shown : WordMatch(titles_shown[i], title)})
      ELSE Len(titles_shown)

\* TaskItem.findByTitle: the first h3 whose text matches new RegExp(title, 'i'),
\* 0 when waitFor times out
findByTitle(titles_shown, title) ==
    IF \E i \in DOMAIN titles_shown : Contains(titles_shown[i], title)
      THEN CHOOSE i \in DOMAIN titles_shown :
             /\ Contains(titles_shown[i], title)
             /\ \A j \in 1..(i - 1) : ~Contains(titles_shown[j], title)
      ELSE 0

\* the application on a click on the Delete button of card i
AppDeleteTitle(titles_shown, i, sameTitleToo) ==
    IF sameTitleToo THEN SelectSeq(titles_shown, LAMBDA t : t # titles_shown[i])
    ELSE RemoveAt(titles_shown, i)

NoDelete == [same |-> 0, removed |-> 0, title |-> <<>>]

RegressionIdle ==
    /\ regressionTasks = <<>> /\ listed = <<>> /\ testStep = 0
    /\ verdict = "idle" /\ lastDelete = NoDelete

\* for (const task of tasks) await taskFormPage.addTask(task)
AddTasks ==
    /\ AtStatement("addTask")
    /\ listed' = regressionTasks
    /\ testStep' = testStep + 1
    /\ verdict' = After(TRUE)
    /\ UNCHANGED <<regressionTasks, lastDelete>>

\* await TaskListPage.assertTaskCount(page, tasks.length - n)
AssertTaskCount ==
    /\ AtStatement("assertTaskCount")
    /\ testStep' = testStep + 1
    /\ verdict' = After(countAllTasks(listed, <<>>) = Len(regressionTasks) - Statement[3])
    /\ UNCHANGED <<regressionTasks, listed, lastDelete>>

\* await TaskItem.deleteByTitle(page, title): find, click Delete, wait, and
\* assertTaskCount(page, 0, title)
DeleteByTitle(sameTitleToo) ==
    LET title == Statement[2]
        i == findByTitle(listed, title)
        after == AppDeleteTitle(listed, i, sameTitleToo)
    IN  /\ AtStatement("deleteByTitle")
        /\ testStep' = testStep + 1
        /\ IF i = 0
             THEN /\ verdict' = After(FALSE)
                  /\ UNCHANGED <<listed, lastDelete>>
             ELSE /\ listed' = after
                  /\ lastDelete' =
                        [same |-> Cardinality({j \in DOMAIN listed : listed[j] = title}),
                         removed |-> Len(listed) - Len(after),
                         title |-> title]
                  /\ verdict' = After(countAllTasks(after, title) = 0)
        /\ UNCHANGED regressionTasks

\* await page.reload(): the application shows what it persisted, which may
\* still hold the deleted tasks
Reload(reappears) ==
    /\ AtStatement("reload")
    /\ listed' = IF reappears THEN regressionTasks ELSE listed
    /\ testStep' = testStep + 1
    /\ verdict' = After(TRUE)
    /\ UNCHANGED <<regressionTasks, lastDelete>>

---------------------------------------------------------------------------
(* The asynchronous flows of the test bodies and page-object operations *)

Awaited(call) == <<call, TRUE>>
NotAwaited(call) == <<call, FALSE>>

\* test.beforeEach of the task-manager tests
beforeEach ==
    << Awaited("fillTaskTitle"), Awaited("fillTaskDescription"),
       Awaited("selectImportance"), Awaited("selectLabel"),
       Awaited("clickAddTaskButton") >>

\* the statements of each flow, in program order, with whether the call is awaited
Statements(name) ==
    CASE name = "Successful Task creation" ->
           beforeEach \o << Awaited("assertNewTaskCreation") >>
      [] name = "Delete task" ->
           beforeEach \o << Awaited("clickDeleteTaskButton"), Awaited("assertTaskIsDeleted") >>
      [] name = "Edit task title" ->
           beforeEach \o << Awaited("clickEditTaskButton"), Awaited("expect.toBeVisible"),
                            Awaited("editTitleField.fill"), Awaited("saveEditButton.click"),
                            Awaited("assertNewTaskCreation") >>
      [] name = "Edit task description" ->
           beforeEach \o << Awaited("clickEditTaskButton"), Awaited("expect.toBeVisible"),
                            Awaited("editDescriptionField.fill"),
                            Awaited("saveEditButton.click"),
                            Awaited("assertNewTaskCreation") >>
      [] name = "Edit Importance" ->
           beforeEach \o << NotAwaited("clickEditTaskButton"), Awaited("expect.toBeVisible"),
                            Awaited("editImportance"), Awaited("saveEditButton.click"),
                            Awaited("assertNewTaskCreation") >>
      [] name = "toggleTaskCompletion" ->
           << Awaited("toggleButton.click"), Awaited("waitForTimeout") >>
      [] name = "deleteTask" ->
           << Awaited("deleteButton.click"), Awaited("waitForTimeout") >>

FlowNames ==
    {"Successful Task creation", "Delete task", "Edit task title", "Edit task description",
     "Edit Importance", "toggleTaskCompletion", "deleteTask"}

IsAwaited(name, i) == Statements(name)[i][2]

FlowIdle ==
    /\ flow = "none" /\ begun = 0 /\ inFlight = {} /\ flowResult = "running"
    /\ flowTrace = <<>>

\* the flow starts its next statement, unless it is suspended on an await
Begin ==
    /\ flow # "none" /\ flowResult = "running"
    /\ begun < Len(Statements(flow))
    /\ \A i \in inFlight : ~IsAwaited(flow, i)
    /\ begun' = begun + 1
    /\ inFlight' = inFlight \cup {begun + 1}
    /\ flowTrace' = Append(flowTrace, <<"begin", begun + 1>>)
    /\ UNCHANGED <<flow, flowResult>>

\* the driver settles the promise of a started statement: it resolves or rejects
Settle(i, resolves) ==
    /\ flow # "none"
    /\ i \in inFlight
    /\ inFlight' = inFlight \ {i}
    /\ flowTrace' = Append(flowTrace, <<"end", i>>)
    /\ flowResult' = IF resolves THEN flowResult ELSE "failed"
    /\ UNCHANGED <<flow, begun>>

---------------------------------------------------------------------------
(* Specifications *)

InitWait == WaitIdle /\ TaskIdle /\ RunIdle /\ StoreIdle /\ PageIdle /\ RegressionIdle /\ FlowIdle

NextWait ==
    \/ (CallPollUntil /\ UNCHANGED exceptWait)
    \/ (CallWaitForAll /\ UNCHANGED exceptWait)
    \/ (CallWaitForAny /\ UNCHANGED exceptWait)
    \/ (PollLoop /\ UNCHANGED exceptWait)
    \/ (PollCheck /\ UNCHANGED exceptWait)
    \/ (PollWait /\ UNCHANGED exceptWait)
    \/ (CallWaitWithBackoff /\ UNCHANGED exceptWait)
    \/ (BackoffLoop /\ UNCHANGED exceptWait)
    \/ (BackoffAttempt /\ UNCHANGED exceptWait)
    \/ (BackoffWait /\ UNCHANGED exceptWait)

SpecWait == InitWait /\ [][NextWait]_vars

InitTask ==
    /\ WaitIdle /\ RunIdle /\ StoreIdle /\ PageIdle /\ RegressionIdle /\ FlowIdle
    /\ validation = NoValidation
    /\ combinations = <<>> /\ prevCombinations = <<>> /\ genCalls = 0
    /\ overrides = NoTask
    /\ \/ task \in Tasks /\ origin = "input"
       \/ task = NoTask /\ origin = "none"

NextTask ==
    \/ (ValidateTask /\ UNCHANGED exceptTask)
    \/ (GenerateAllCombinations /\ UNCHANGED exceptTask)
    \/ (CreateInvalidTask /\ UNCHANGED exceptTask)
    \/ (CreateValidTask /\ UNCHANGED exceptTask)
    \/ (CreateMinimalTask /\ UNCHANGED exceptTask)
    \/ (CreateRandomTask /\ UNCHANGED exceptTask)

SpecTask == InitTask /\ [][NextTask]_vars


InitRun == WaitIdle /\ TaskIdle /\ RunIdle /\ StoreIdle /\ PageIdle /\ RegressionIdle /\ FlowIdle

NextRun ==
    \/ (\E t \in Tests, w \in Workers : Schedule(t, w) /\ UNCHANGED exceptRun)
    \/ (\E t \in Tests, ok \in BOOLEAN : SetupFixtures(t, ok) /\ UNCHANGED exceptRun)
    \/ (\E t \in Tests, level \in Levels : Log(t, level) /\ UNCHANGED exceptRun)
    \/ (\E t \in Tests, name \in ScreenshotNames : TakeScreenshot(t, name) /\ UNCHANGED exceptRun)
    \/ (ClockTick /\ UNCHANGED exceptRun)
    \/ (\E t \in Tests, o \in BodyOutcomes : BodyEnds(t, o) /\ UNCHANGED exceptRun)
    \/ (\E t \in Tests : TeardownFixtures(t) /\ UNCHANGED exceptRun)

SpecRun == InitRun /\ [][NextRun]_vars

\* runs whose bodies neither log nor take screenshots
NextLifecycle ==
    \/ (\E t \in Tests, w \in Workers : Schedule(t, w) /\ UNCHANGED exceptRun)
    \/ (\E t \in Tests, ok \in BOOLEAN : SetupFixtures(t, ok) /\ UNCHANGED exceptRun)
    \/ (\E t \in Tests, o \in BodyOutcomes : BodyEnds(t, o) /\ UNCHANGED exceptRun)
    \/ (\E t \in Tests : TeardownFixtures(t) /\ UNCHANGED exceptRun)

SpecLifecycle == InitRun /\ [][NextLifecycle]_vars

\* runs whose bodies log and take no screenshots
NextLogging ==
    \/ (\E t \in Tests, w \in Workers : Schedule(t, w) /\ UNCHANGED exceptRun)
    \/ (\E t \in Tests, ok \in BOOLEAN : SetupFixtures(t, ok) /\ UNCHANGED exceptRun)
    \/ (\E t \in Tests, level \in Levels : Log(t, level) /\ UNCHANGED exceptRun)
    \/ (\E t \in Tests, o \in BodyOutcomes : BodyEnds(t, o) /\ UNCHANGED exceptRun)
    \/ (\E t \in Tests : TeardownFixtures(t) /\ UNCHANGED exceptRun)

SpecLogging == InitRun /\ [][NextLogging]_vars

\* a page with any prior content in its two storages
InitStore ==
    /\ WaitIdle /\ TaskIdle /\ RunIdle /\ PageIdle /\ RegressionIdle /\ FlowIdle
    /\ \E keys \in SUBSET Keys :
         /\ \E text \in StoredTexts :
              localStorage = [k \in keys |-> IF k = "tasks" THEN text ELSE <<S("dark")>>]
         /\ sessionStorage = [k \in {"theme"} |-> <<S("dark")>>]
    /\ appTasks = AppLoad(localStorage)
    /\ appWrote = FALSE /\ lastSet = <<>> /\ got = NotRead
    /\ prevOp = "none" /\ lastOp = "none" /\ lastSteps = <<>>

NextStore ==
    \/ (ResetState /\ UNCHANGED exceptStore)
    \/ (\E tasks \in StoredLists : SetStoredTasks(tasks) /\ UNCHANGED exceptStore)
    \/ (GetStoredTasks /\ UNCHANGED exceptStore)
    \/ (AppPersist /\ UNCHANGED exceptStore)

SpecStore == InitStore /\ [][NextStore]_vars

\* a page with any task list and any filter
InitPage ==
    /\ WaitIdle /\ TaskIdle /\ RunIdle /\ StoreIdle /\ RegressionIdle /\ FlowIdle
    /\ cards \in CardLists /\ filter \in Filters
    /\ pageOp = "none" /\ pageArg = <<>> /\ editArg = NoEdit
    /\ pageResult = "none" /\ interactions = <<>> /\ prevCards = <<>>
    /\ setupArg = <<>>

\* one page-object operation after another, each started when the one before returned
NextPage ==
    \/ (\E l \in Filters : FilterByLabel(l) /\ UNCHANGED exceptPage)
    \/ (\E t \in PageTitles : ToggleTaskCompletion(t) /\ UNCHANGED exceptPage)
    \/ (\E t \in PageTitles, b \in BOOLEAN : DeleteTask(t, b) /\ UNCHANGED exceptPage)
    \/ (\E t \in PageTitles, n \in NewTasks : EditTask(t, n) /\ UNCHANGED exceptPage)
    \/ (\E b \in BOOLEAN : ClearTestData(b) /\ UNCHANGED exceptPage)

SpecPage == InitPage /\ [][NextPage]_vars

\* a cleanup on a page whose list may hold a task added without a title
Untitled == <<>>
ClearLists ==
    UNION {[1..n -> [title : PageTitles \cup {Untitled}, label : PageLabels,
                     completed : {FALSE}]] : n \in 0..MaxCards}

InitClear ==
    /\ WaitIdle /\ TaskIdle /\ RunIdle /\ StoreIdle /\ RegressionIdle /\ FlowIdle
    /\ cards \in ClearLists /\ filter \in Filters
    /\ pageOp = "none" /\ pageArg = <<>> /\ editArg = NoEdit
    /\ pageResult = "none" /\ interactions = <<>> /\ prevCards = <<>>
    /\ setupArg = <<>>

NextClear == \E b \in BOOLEAN : ClearTestData(b) /\ UNCHANGED exceptPage

SpecClear == InitClear /\ [][NextClear]_vars

\* the operations that address a card by its title
NextByTitle ==
    \/ (\E t \in PageTitles : ToggleTaskCompletion(t) /\ UNCHANGED exceptPage)
    \/ (\E t \in PageTitles, b \in BOOLEAN : DeleteTask(t, b) /\ UNCHANGED exceptPage)
    \/ (\E t \in PageTitles, n \in NewTasks : EditTask(t, n) /\ UNCHANGED exceptPage)
    \/ (\E t \in PageTitles : GetTaskDetails(t) /\ UNCHANGED exceptPage)

SpecByTitle == InitPage /\ [][NextByTitle]_vars

\* a test that sets its data up on a page with any task list
NextSetup ==
    \E tasks \in SetupLists, loads \in BOOLEAN : SetupTestData(tasks, loads) /\ UNCHANGED exceptPage

SpecSetup == InitPage /\ [][NextSetup]_vars

\* the regression test run on any of its task lists
InitRegression ==
    /\ WaitIdle /\ TaskIdle /\ RunIdle /\ StoreIdle /\ PageIdle /\ FlowIdle
    /\ regressionTasks \in RegressionLists
    /\ listed = <<>> /\ testStep = 0 /\ verdict = "running" /\ lastDelete = NoDelete

NextRegression ==
    \/ AddTasks /\ UNCHANGED exceptRegression
    \/ AssertTaskCount /\ UNCHANGED exceptRegression
    \/ \E sameTitleToo \in BOOLEAN : DeleteByTitle(sameTitleToo) /\ UNCHANGED exceptRegression
    \/ \E reappears \in BOOLEAN : Reload(reappears) /\ UNCHANGED exceptRegression

SpecRegression == InitRegression /\ [][NextRegression]_vars

\* any one flow of the repository, run from its first statement
InitFlow ==
    /\ WaitIdle /\ TaskIdle /\ RunIdle /\ StoreIdle /\ PageIdle /\ RegressionIdle
    /\ flow \in FlowNames
    /\ begun = 0 /\ inFlight = {} /\ flowResult = "running" /\ flowTrace = <<>>

NextFlow ==
    \/ Begin /\ UNCHANGED exceptFlow
    \/ \E i \in inFlight, resolves \in BOOLEAN : Settle(i, resolves) /\ UNCHANGED exceptFlow

SpecFlow == InitFlow /\ [][NextFlow]_vars

SpecWaitFair == SpecWait /\ WF_vars(NextWait)

---------------------------------------------------------------------------
(* Properties of WaitHelper *)

Returned == pc = "done"

\* C1: pollUntil never raises: it completes, with true or false, and false is
\* returned only once at least timeoutMs has elapsed since the call began, also
\* when the condition raises on every check.
C1_PollNeverRaises ==
    /\ [](op \in PollOps =>
            /\ result # "raised"
            /\ (Returned => result \in {"true", "false"})
            /\ (result = "false" => retAt - startTime >= timeoutMs))
    /\ ((op \in PollOps) ~> Returned)

C1_Witness ==
    /\ op = "pollUntil" /\ Returned /\ result = "false"
    /\ timeoutMs > 0 /\ calls >= 2 /\ raises = calls

\* C2: pollUntil returns true on the first check whose condition is true, after
\* exactly k checks and k-1 interval waits, and never checks again.
C2_PollReturnsOnFirstTrue ==
    op \in PollOps =>
       /\ (firstTrue # 0 =>
             /\ Returned /\ result = "true"
             /\ calls = firstTrue
             /\ Len(waitLog) = firstTrue - 1
             /\ \A i \in DOMAIN waitLog : waitLog[i] = intervalMs
             /\ (firstTrue - 1) * intervalMs < timeoutMs)
       /\ (result = "true" => firstTrue = calls)

C2_Witness ==
    /\ op = "pollUntil" /\ timeoutMs = ExampleTimeoutMs /\ intervalMs = DefaultIntervalMs
    /\ result = "true" /\ calls = 3 /\ SumSeq(waitLog) = 1000

\* C3: pollUntil returns no later than timeoutMs + intervalMs after the call.
C3_PollNoOvershoot ==
    (op = "pollUntil" /\ Returned) => retAt - startTime <= timeoutMs + intervalMs

\* C4: pollUntil evaluates the condition at least once before it can return false,
\* for every timeoutMs >= 0.
C4_PollChecksBeforeFalse ==
    (op = "pollUntil" /\ result = "false") => calls >= 1

\* C5: waitWithBackoff(action, n, d) with an action that is false on every attempt
\* invokes it n times, waits d, 2d, ..., 2^(n-2)*d (nothing after the last attempt),
\* d*(2^(n-1)-1) in total, and returns false.
C5_BackoffAllFalse ==
    (op = "waitWithBackoff" /\ Returned /\ maxAttempts >= 1 /\ firstTrue = 0 /\ raises = 0) =>
       /\ calls = maxAttempts
       /\ waitLog = [i \in 1..(maxAttempts - 1) |-> Pow2(i - 1) * initialDelay]
       /\ SumSeq(waitLog) = initialDelay * (Pow2(maxAttempts - 1) - 1)
       /\ result = "false"

C5_Witness ==
    /\ op = "waitWithBackoff" /\ Returned /\ result = "false"
    /\ maxAttempts = 3 /\ initialDelay = 1000 /\ calls = 3
    /\ waitLog = <<1000, 2000>> /\ SumSeq(waitLog) = 3000

\* C6: waitWithBackoff stops on the first success (k invocations, k-1 waits), invokes
\* the action at most maxAttempts times, and returns false only after maxAttempts
\* failed attempts.
C6_BackoffStopsOnSuccess ==
    op = "waitWithBackoff" =>
       /\ calls <= maxAttempts
       /\ (firstTrue # 0 =>
             /\ Returned /\ result = "true"
             /\ calls = firstTrue
             /\ Len(waitLog) = firstTrue - 1)
       /\ (result = "true" => firstTrue = calls)
       /\ (result = "false" => calls = maxAttempts /\ firstTrue = 0 /\ raises = 0)

C6_Witness ==
    /\ op = "waitWithBackoff" /\ result = "true"
    /\ maxAttempts = DefaultMaxAttempts /\ firstTrue = 3 /\ Len(waitLog) = 2

\* C7: a failure raised by the action of waitWithBackoff propagates at that attempt:
\* no further attempt or wait, and neither true nor false is returned.
C7_BackoffPropagates ==
    (op = "waitWithBackoff" /\ raises # 0) =>
       /\ Returned /\ result = "raised"
       /\ raises = 1 /\ tick = <<"raise">>
       /\ Len(waitLog) = calls - 1

C7_Witness ==
    op = "waitWithBackoff" /\ result = "raised" /\ calls = 2 /\ Len(waitLog) = 1

\* C8: waitForAll returns true only on a tick on which every condition returned true;
\* conditions true on different ticks only yield false; a condition that raises
\* counts as false for its tick and its failure is never propagated.
C8_WaitForAll ==
    op = "waitForAll" =>
       /\ result # "raised"
       /\ (result = "true" => allTick /\ \A i \in 1..nConds : tick[i] = "true")
       /\ ((Returned /\ ~allTick) => result = "false")

C8_Witness ==
    /\ op = "waitForAll" /\ Returned /\ result = "false"
    /\ nConds = 2 /\ everTrue = {1, 2} /\ ~allTick /\ raises > 0

\* C9: waitForAny returns true on the first tick on which at least one condition
\* returns true, whatever the others do; false if none ever is; no failure propagates.
C9_WaitForAny ==
    op = "waitForAny" =>
       /\ result # "raised"
       /\ (anyTick => Returned /\ result = "true" /\ \E i \in 1..nConds : tick[i] = "true")
       /\ (result = "true" => anyTick)
       /\ ((Returned /\ ~anyTick) => result = "false")

C9_Witness ==
    /\ op = "waitForAny" /\ result = "true"
    /\ nConds = 2 /\ tick = <<"raise", "true">> /\ calls >= 2

---------------------------------------------------------------------------
(* Properties of TaskService *)

Validated == validation # NoValidation /\ origin = "input"

Triple(t) == <<t.importance, t.label, t.completed>>

ErrorOfKind(kind) ==
    CASE kind = "no-title" -> "Title is required"
      [] kind = "lowercase-title" -> "Title should start with a capital letter"
      [] kind = "invalid-importance" -> "Invalid importance value"
      [] kind = "invalid-label" -> "Invalid label value"

C20_InvalidTaskRejected ==
    (origin \in InvalidKinds /\ validation # NoValidation) =>
       /\ ~validation.valid
       /\ validation.errors = <<ErrorOfKind(origin)>>

C20_Witness ==
    /\ origin = "no-title" /\ validation # NoValidation
    /\ validation.errors = <<"Title is required">>

---------------------------------------------------------------------------
(* Properties of the fixtures *)

Index(q, e) == {i \in DOMAIN q : q[i] = e}

\* C12: in the testDataService fixture, resetState() runs after the test body has
\* finished, whether the body succeeded or failed, never before or during it, and no
\* test run ends with the fixture set up and its teardown skipped.
C12_TeardownAlwaysRuns ==
    \A t \in Tests :
       /\ (phase[t] = "ended" /\ Index(events[t], "use") # {})
             => Index(events[t], "resetState") # {}
       /\ \A i \in Index(events[t], "resetState") :
             /\ phase[t] \notin {"setup", "body"}
             /\ \A j \in Index(events[t], "bodyStart") \cup Index(events[t], "bodyEnd") : j < i
             /\ Index(events[t], "bodyStart") # {} => Index(events[t], "bodyEnd") # {}

C12_Witness ==
    \E t \in Tests :
       /\ phase[t] = "ended" /\ outcome[t] = "fail"
       /\ events[t] = <<"construct", "use", "bodyStart", "bodyEnd", "resetState">>

\* C13: no Test Context state is shared between concurrently running tests: nothing one
\* test wrote through its fixtures (its log lines, its screenshot files) is read,
\* modified or cleared by a test running at the same time.
Running(t) == phase[t] \in {"setup", "body", "teardown"}

\* what a test reads from its logger is what it wrote (holds: one Logger per process)
LogsIsolated ==
    \A t \in Tests :
       (phase[t] = "body" /\ "logger" \in requested[t]) => getLogs(t) = logged[t]


C13_NoSharedState ==
    \A t, u \in Tests :
       (t # u /\ Running(t) /\ Running(u)) =>
          /\ ("logger" \in requested[t] /\ phase[t] = "body") => getLogs(t) = logged[t]
          /\ \A f \in sink : f.path \in shots[t] => f.owner = t

---------------------------------------------------------------------------
(* Properties of the persisted store *)

\* C14: resetState() followed immediately by getStoredTasks() returns an empty
\* collection, whatever the two storages held before; resetState clears both storages
\* and then reloads the page.
C14_ResetThenEmpty ==
    /\ (lastOp = "resetState") =>
          /\ lastSteps = <<"localStorage.clear", "sessionStorage.clear", "reload">>
          /\ sessionStorage = EmptyStorage
          /\ DOMAIN localStorage \subseteq {"tasks"}
          /\ appTasks = <<>>
    /\ (prevOp = "resetState" /\ lastOp = "getStoredTasks") =>
          /\ ~got.raised /\ got.isArray /\ got.value = <<>>

C14_Witness ==
    /\ prevOp = "resetState" /\ lastOp = "getStoredTasks"
    /\ got.value = <<>> /\ appWrote
    /\ Present(localStorage, "tasks")

\* C15: getStoredTasks() returns an empty collection only when the 'tasks' key is absent
\* or holds an empty array; when the key is present and its value is not a decodable
\* serialized array of records (an empty or truncated string, for instance) the read
\* fails and the failure reaches the caller.
Malformed(text) == ~parse(text).ok \/ ~parse(text).isArray

C15_MalformedPropagates ==
    lastOp = "getStoredTasks" =>
       /\ (~got.raised /\ got.value = <<>>) =>
             \/ ~Present(localStorage, "tasks")
             \/ getItem(localStorage, "tasks") = stringify(<<>>)
       /\ (Present(localStorage, "tasks") /\ Malformed(getItem(localStorage, "tasks")))
             => got.raised

\* C16: setStoredTasks(tasks) writes the records under the single key 'tasks' and
\* reloads; unless the application wrote the store in between, a following
\* getStoredTasks() returns the same records, in the same order, with exactly the
\* given fields.
C16_RoundTrip ==
    /\ (lastOp = "setStoredTasks" /\ ~appWrote) =>
          /\ lastSteps = <<"localStorage.setItem", "reload">>
          /\ parse(getItem(localStorage, "tasks")).value = lastSet
    /\ (prevOp = "setStoredTasks" /\ lastOp = "getStoredTasks" /\ ~appWrote) =>
          /\ ~got.raised /\ got.isArray
          /\ got.value = lastSet

C16_Witness ==
    /\ prevOp = "setStoredTasks" /\ lastOp = "getStoredTasks" /\ ~appWrote
    /\ Len(lastSet) = 2 /\ got.value = lastSet
    /\ DOMAIN lastSet[1] = {"title"}
    /\ "completed" \in DOMAIN lastSet[2] /\ ~lastSet[2].completed

---------------------------------------------------------------------------
(* Properties of the task list page *)

\* C17: when clearTestData() returns, no task remains in the application, neither
\* displayed nor stored, whatever the tasks and the UI state before, a label filter
\* hiding some of the tasks included.
C17_ClearLeavesNothing ==
    (pageOp = "clearTestData" /\ pageResult = "ok") => cards = <<>>

\* C18: first-match policy: when several displayed cards share the title passed to
\* deleteTask, editTask or toggleTaskCompletion, the operation acts on the first of
\* them, leaves the others untouched, and does not fail because of the ambiguity.
SameTitle(cs, f, title) == {i \in Range(Displayed(cs, f)) : cs[i].title = title}
First(m) == CHOOSE i \in m : \A j \in m : i <= j

C18_FirstMatchPolicy ==
    (/\ pageOp \in {"deleteTask", "editTask", "toggleTaskCompletion"}
     /\ Cardinality(SameTitle(prevCards, filter, pageArg)) > 1)
    => /\ pageResult = "ok"
       /\ interactions # <<>>
       /\ cards = CASE pageOp = "deleteTask" ->
                        RemoveAt(prevCards, First(SameTitle(prevCards, filter, pageArg)))
                    [] pageOp = "toggleTaskCompletion" ->
                        AppToggle(prevCards, First(SameTitle(prevCards, filter, pageArg)))
                    [] pageOp = "editTask" ->
                        AppSave(prevCards, First(SameTitle(prevCards, filter, pageArg)), editArg)

\* C19: editTask(oldTitle, newTask) overwrites only the fields present in newTask: no
\* clear, fill or select is issued on a field absent from newTask, each present field
\* is set to newTask's value, and the save click comes after all field interactions.
EditFields == {"title", "description", "importance", "label"}
Touched(log, field) == \E i \in DOMAIN log : log[i][1] \in {"clear", "fill", "select"} /\ log[i][2] = field
SetTo(log, field, text) ==
    \E i \in DOMAIN log :
       /\ log[i][1] \in {"fill", "select"} /\ log[i][2] = field /\ log[i][3] = text
       /\ \A j \in DOMAIN log : (j > i /\ log[j][2] = field) => log[j][1] = "click"
FieldText(newTask, field) ==
    IF field \in {"importance", "label"} THEN Chars(newTask[field]) ELSE newTask[field]
SaveLast(log) ==
    /\ log # <<>> /\ log[Len(log)][1] = "click" /\ log[Len(log)][2] = "Save"
    /\ \A i \in 1..(Len(log) - 1) : log[i][2] # "Save"

Supplied(newTask, f) ==
    Has(newTask, f) /\ (f \in {"importance", "label"} => newTask[f] # "")

---------------------------------------------------------------------------
(* The documented example of waitWithBackoff *)

\* C27: as documented on waitWithBackoff, a call with maxAttempts = 5 and
\* initialDelay = 1000 whose action never succeeds waits 1s, 2s, 4s, 8s and 16s:
\* five waits, the last of 16000 ms.
C27_DocumentedDelays ==
    (/\ op = "waitWithBackoff" /\ Returned
     /\ maxAttempts = DefaultMaxAttempts /\ initialDelay = DefaultInitialDelay
     /\ firstTrue = 0 /\ raises = 0)
    => /\ Len(waitLog) = DefaultMaxAttempts
       /\ waitLog = [i \in 1..DefaultMaxAttempts |-> Pow2(i - 1) * DefaultInitialDelay]
       /\ waitLog[Len(waitLog)] = 16 * DefaultInitialDelay

---------------------------------------------------------------------------
(* Properties of the TaskService generators *)

\* C21: createValidTask(overrides) merges overrides onto a fixed default: a field
\* supplied in overrides has the override's value, a field not supplied has the
\* default (title 'Test Task', description 'Test description', importance Medium,
\* label Work, completed false); with no overrides the result passes validateTask.
C21_ValidTaskMerge ==
    origin = "createValidTask" =>
       /\ DOMAIN task = {"title", "description", "importance", "label", "completed"}
       /\ task.title = IF Has(overrides, "title") THEN overrides.title
                       ELSE <<"T", "e", "s", "t", " ", "T", "a", "s", "k">>
       /\ task.description = IF Has(overrides, "description") THEN overrides.description
                             ELSE <<"T", "e", "s", "t", " ", "d", "e", "s", "c", "r", "i", "p", "t", "i", "o", "n">>
       /\ task.importance = IF Has(overrides, "importance") THEN overrides.importance ELSE "Medium"
       /\ task.label = IF Has(overrides, "label") THEN overrides.label ELSE "Work"
       /\ task.completed = IF Has(overrides, "completed") THEN overrides.completed ELSE FALSE
       /\ (overrides = NoTask /\ validation # NoValidation) =>
             (validation.valid /\ validation.errors = <<>>)

C21_Witness ==
    /\ origin = "createValidTask" /\ validation # NoValidation
    /\ DOMAIN overrides = {"title", "importance"}
    /\ overrides.importance = "High" /\ task.importance = "High"
    /\ task.title = overrides.title /\ task.label = "Work"

\* C22: createMinimalTask() with no overrides returns a record in which only the
\* required field, title, is set, to a valid default value, and description,
\* importance, label and completed are all absent.
C22_MinimalOnlyTitle ==
    (origin = "createMinimalTask" /\ overrides = NoTask) =>
       /\ DOMAIN task = {"title"}
       /\ ~TitleMissing(task) /\ StartsWithCapital(task.title)

\* C30: every record createRandomTask() can return has its title in the pool of five,
\* its description in the pool of four, importance in {High, Medium, Low}, label in
\* {Work, Social, Home, Hobby} and a boolean completed, and passes validateTask
\* with no errors.
C30_RandomTaskValid ==
    origin = "createRandomTask" =>
       /\ DOMAIN task = {"title", "description", "importance", "label", "completed"}
       /\ \E i \in 1..5 : task.title = titles[i]
       /\ \E i \in 1..4 : task.description = descriptions[i]
       /\ task.importance \in Importances
       /\ task.label \in Labels
       /\ task.completed \in BOOLEAN
       /\ validation # NoValidation => (validation.valid /\ validation.errors = <<>>)

C30_Witness ==
    /\ origin = "createRandomTask" /\ validation # NoValidation /\ validation.valid
    /\ task.title = titles[5] /\ task.description = <<>>
    /\ task.importance = "Low" /\ task.label = "Hobby" /\ task.completed

---------------------------------------------------------------------------
(* Properties of the logger fixture *)

---------------------------------------------------------------------------
(* Properties of setupTestData *)

Kind(log, i) == log[i][1]
AddClicks(log) == {i \in DOMAIN log : Kind(log, i) = "click" /\ log[i][2] = "Add"}
\* the position of the k-th click on Add
NthAdd(log, k) ==
    CHOOSE i \in AddClicks(log) : Cardinality({j \in AddClicks(log) : j <= i}) = k
\* the interactions between the (k-1)-th settle wait (or the navigation) and the
\* k-th click on Add
FormSteps(log, k) ==
    SubSeq(log, (IF k = 1 THEN 1 ELSE NthAdd(log, k - 1) + 1) + 1, NthAdd(log, k) - 1)

\* C24: setupTestData(tasks) navigates first and then adds the tasks one at a time in
\* list order through addTask (fill the form, submit, settle wait): one add per
\* element, none reordered, batched, deduplicated or retried, and the persisted
\* store is never written directly.
C24_SetupAddsInOrder ==
    pageOp = "setupTestData" =>
       /\ interactions # <<>> /\ interactions[1] = Goto("/")
       /\ \A i \in DOMAIN interactions :
            /\ Kind(interactions, i) \in {"goto", "clear", "fill", "select", "click",
                                         "waitForTimeout"}
            /\ Kind(interactions, i) = "goto" => i = 1
            /\ i \in AddClicks(interactions) =>
                 (i < Len(interactions) /\ Kind(interactions, i + 1) = "waitForTimeout")
       /\ Cardinality(AddClicks(interactions)) <= Len(setupArg)
       /\ \A k \in 1..Cardinality(AddClicks(interactions)) :
            /\ \E j \in DOMAIN FormSteps(interactions, k) :
                 FormSteps(interactions, k)[j] = Fill("title", setupArg[k].title)
            /\ Count(FormSteps(interactions, k), Clear("title")) = 1
            /\ cards[Len(prevCards) + k].title = setupArg[k].title
       /\ Len(cards) = Len(prevCards) + Cardinality(AddClicks(interactions))
       /\ pageResult = "ok" => Cardinality(AddClicks(interactions)) = Len(setupArg)

C24_Witness ==
    /\ pageOp = "setupTestData" /\ pageResult = "ok"
    /\ Len(setupArg) = 2 /\ setupArg[1] = setupArg[2]
    /\ Cardinality(AddClicks(interactions)) = 2
    /\ Len(cards) = Len(prevCards) + 2

---------------------------------------------------------------------------
(* Properties of the title-collision regression test *)

\* the test has executed its delete of a title that two tasks carried, and the
\* count check after it (if the delete's own check let it get that far)
CollisionChecked ==
    /\ lastDelete.same = 2
    /\ \/ (verdict = "failed" /\ RegressionTest[testStep][1] = "deleteByTitle")
       \/ (testStep >= 2 /\ RegressionTest[testStep - 1][1] = "deleteByTitle"
             /\ RegressionTest[testStep][1] = "assertTaskCount")

\* C25: when two tasks share a title and one is deleted by that title with
\* deleteByTitle, the checks (deleteByTitle's own and the count check after it) pass
\* if exactly one task with that title remains, and fail if both were removed.
C25_CollisionOracle ==
    CollisionChecked =>
       /\ lastDelete.removed = 1 => verdict # "failed"
       /\ lastDelete.removed = 2 => verdict = "failed"

---------------------------------------------------------------------------
(* Properties of the asynchronous flows *)

\* C26: every interaction of a flow is awaited before the next step of the same flow
\* starts: a statement begins only when every earlier statement has settled, so at
\* most the statement started last is in flight.
C26_NoFireAndForget ==
    /\ \A i \in inFlight : i = begun
    /\ \A k \in DOMAIN flowTrace :
         flowTrace[k][1] = "begin" =>
            \A i \in 1..(flowTrace[k][2] - 1) :
               \E j \in 1..(k - 1) : flowTrace[j] = <<"end", i>>

---------------------------------------------------------------------------
(* Properties of clearAllTasks *)

\* C28: clearAllTasks (and so clearTestData) terminates for every displayed list,
\* also one with a task whose title is empty; every iteration removes at least one
\* displayed card, and on return no card is displayed.
C28_ClearTerminates ==
    pageOp = "clearTestData" =>
       /\ pageResult # "hangs"
       /\ pageResult = "ok" =>
            /\ Displayed(cards, filter) = <<>>
            /\ Len(interactions) <= Len(Displayed(prevCards, filter))

---------------------------------------------------------------------------
(* Properties of the lookup of a card by its title *)

ByTitleOps == {"deleteTask", "editTask", "toggleTaskCompletion", "getTaskDetails"}
\* the cards an operation clicked in or read from, as positions in the list before it
ActedOn(log) ==
    {log[k][3][1] : k \in {j \in DOMAIN log : log[j][1] \in {"click", "read"}}}

\* C29: deleteTask, editTask and toggleTaskCompletion only act on a card whose
\* title equals the given title, never on one whose title merely contains it, and
\* getTaskDetails returns null when no displayed card has exactly that title.
C29_ExactTitleOnly ==
    pageOp \in ByTitleOps =>
       /\ \A i \in ActedOn(interactions) : prevCards[i].title = pageArg
       /\ (pageOp = "getTaskDetails"
             /\ \A i \in Range(Displayed(prevCards, filter)) : prevCards[i].title # pageArg)
          => pageResult = "null"

=============================================================================
